---- MODULE Spec2Model ----
(***************************************************************************)
(* Emissions quantification engine of CarbonSuite: unit normalisation,     *)
(* emission-factor resolution, multi-gas CO2e blending and aggregation.    *)
(*                                                                         *)
(* A data frame is a record [none, cols, rows]: the set of column names    *)
(* and the sequence of rows.  A numeric cell is an exact rational          *)
(* [n, d] with d > 0 in lowest terms; d = 0 is NaN / None; d < 0 is a      *)
(* cell holding non-numeric text.  Floating-point products and quotients   *)
(* are modelled by exact rational arithmetic.                              *)
(***************************************************************************)
EXTENDS Integers, Sequences, FiniteSets, TLC

VARIABLES df, factors_df, db_factors, sqlite_sequence, analysis_runs, region, year, args, op, result, seen

vars == <<df, factors_df, db_factors, sqlite_sequence, analysis_runs, region, year, args, op, result, seen>>

(***************************************************************************)
(* Bounds of the explored input space.                                     *)
(***************************************************************************)
MaxRows == 2
MaxFactors == 2
MaxRuns == 2

(***************************************************************************)
(* Numbers.                                                                *)
(***************************************************************************)
NaN == [n |-> 0, d |-> 0]
TextCell == [n |-> 0, d |-> -1]

Abs(i) == IF i < 0 THEN -i ELSE i

RECURSIVE GCD(_, _)
GCD(a, b) == IF b = 0 THEN a ELSE GCD(b, a % b)

Rat(num, den) ==
    LET g == GCD(Abs(num), Abs(den))
        s == IF den < 0 THEN -1 ELSE 1
    IN  [n |-> s * (num \div g), d |-> s * (den \div g)]

Int2Rat(i) == [n |-> i, d |-> 1]

notna(x) == x.d > 0

isna(x) == ~notna(x)

\* pd.to_numeric(..., errors="coerce"): text that is not a number becomes NaN
to_numeric(x) == IF x.d < 0 THEN NaN ELSE x

\* float product; NaN propagates
RMul(a, b) ==
    IF isna(a) \/ isna(b) THEN NaN
    ELSE IF a.n = 0 \/ b.n = 0 THEN Int2Rat(0)
    ELSE LET g1 == GCD(Abs(a.n), b.d)
             g2 == GCD(Abs(b.n), a.d)
         IN  [n |-> (a.n \div g1) * (b.n \div g2),
              d |-> (a.d \div g2) * (b.d \div g1)]

\* float quotient by a non-zero divisor; NaN propagates
RDiv(a, b) ==
    IF isna(a) \/ isna(b) \/ b.n = 0 THEN NaN
    ELSE RMul(a, IF b.n < 0 THEN [n |-> -b.d, d |-> -b.n]
                            ELSE [n |-> b.d, d |-> b.n])

\* float sum; NaN propagates
RAdd(a, b) ==
    IF isna(a) \/ isna(b) THEN NaN
    ELSE LET g == GCD(a.d, b.d)
         IN  Rat(a.n * (b.d \div g) + b.n * (a.d \div g), (a.d \div g) * b.d)

RLess(a, b) ==
    LET g == GCD(a.d, b.d)
    IN  a.n * (b.d \div g) < b.n * (a.d \div g)

RSub(a, b) == RAdd(a, RMul(Int2Rat(-1), b))

\* max(a, b) and min(a, b) of two numbers
RMax(a, b) == IF RLess(a, b) THEN b ELSE a

RMin(a, b) == IF RLess(b, a) THEN b ELSE a

fillna(x, v) == IF isna(x) THEN v ELSE x

(***************************************************************************)
(* Text.  str.lower() and str.strip() over the labels of the model.        *)
(***************************************************************************)
LowerTable ==
    [s \in {"Diesel", "Diesel ", "G", "KG", "US", " US ", "Global", "S1",
            "Scope 1", " Scope 1 ", "IPCC 2006", "Mile", "BBL", "Fleet", " Fleet ",
            "Materials", "Transport", "Processing", "Distribution", "End-Of-Life",
            "Packaging", "Use Phase", "Gate-To-Gate", "Economic", "MATERIALS"} |->
        CASE s = "Diesel" -> "diesel"
          [] s = "Diesel " -> "diesel "
          [] s = "G" -> "g"
          [] s = "KG" -> "kg"
          [] s = "US" -> "us"
          [] s = " US " -> " us "
          [] s = "Global" -> "global"
          [] s = "S1" -> "s1"
          [] s = "Scope 1" -> "scope 1"
          [] s = " Scope 1 " -> " scope 1 "
          [] s = "IPCC 2006" -> "ipcc 2006"
          [] s = "Mile" -> "mile"
          [] s = "BBL" -> "bbl"
          [] s = "Fleet" -> "fleet"
          [] s = " Fleet " -> " fleet "
          [] s = "Materials" -> "materials"
          [] s = "Transport" -> "transport"
          [] s = "Processing" -> "processing"
          [] s = "Distribution" -> "distribution"
          [] s = "End-Of-Life" -> "end-of-life"
          [] s = "Packaging" -> "packaging"
          [] s = "Use Phase" -> "use phase"
          [] s = "Gate-To-Gate" -> "gate-to-gate"
          [] s = "Economic" -> "economic"
          [] s = "MATERIALS" -> "materials"]

lower(s) == IF s \in DOMAIN LowerTable THEN LowerTable[s] ELSE s

StripTable ==
    [s \in {"Diesel ", "diesel ", " US ", " us ", " Scope 1 ", " scope 1 ", " Fleet ",
            "materials ", " Gate-To-Gate "} |->
        CASE s = "Diesel " -> "Diesel"
          [] s = "diesel " -> "diesel"
          [] s = " US " -> "US"
          [] s = " us " -> "us"
          [] s = " Scope 1 " -> "Scope 1"
          [] s = " scope 1 " -> "scope 1"
          [] s = " Fleet " -> "Fleet"
          [] s = "materials " -> "materials"
          [] s = " Gate-To-Gate " -> "Gate-To-Gate"]

strip(s) == IF s \in DOMAIN StripTable THEN StripTable[s] ELSE s

\* str(value).strip().lower()
strip_lower(s) == lower(strip(s))

\* str.contains("ipcc", regex=False) on a lower-cased source label
contains_ipcc(s) == s \in {"ipcc", "ipcc 2006"}

(***************************************************************************)
(* Conversion table: unit label -> (canonical unit, multiplier).           *)
(***************************************************************************)
UNIT_MAP ==
    [u \in {"l", "liter", "litre", "ml", "kg", "g", "ton", "tonne", "t",
            "kwh", "mwh", "wh", "mj", "gj", "km", "m", "mile", "miles"} |->
        CASE u = "l"     -> <<"l", Rat(1, 1)>>
          [] u = "liter" -> <<"l", Rat(1, 1)>>
          [] u = "litre" -> <<"l", Rat(1, 1)>>
          [] u = "ml"    -> <<"l", Rat(1, 1000)>>
          [] u = "kg"    -> <<"kg", Rat(1, 1)>>
          [] u = "g"     -> <<"kg", Rat(1, 1000)>>
          [] u = "ton"   -> <<"kg", Rat(90718474, 100000)>>
          [] u = "tonne" -> <<"kg", Rat(1000, 1)>>
          [] u = "t"     -> <<"kg", Rat(1000, 1)>>
          [] u = "kwh"   -> <<"kwh", Rat(1, 1)>>
          [] u = "mwh"   -> <<"kwh", Rat(1000, 1)>>
          [] u = "wh"    -> <<"kwh", Rat(1, 1000)>>
          [] u = "mj"    -> <<"mj", Rat(1, 1)>>
          [] u = "gj"    -> <<"mj", Rat(1000, 1)>>
          [] u = "km"    -> <<"km", Rat(1, 1)>>
          [] u = "m"     -> <<"km", Rat(1, 1000)>>
          [] u = "mile"  -> <<"km", Rat(160934, 100000)>>
          [] u = "miles" -> <<"km", Rat(160934, 100000)>>]

HasMapping(u) == u \in DOMAIN UNIT_MAP

(***************************************************************************)
(* Ordering of text labels (Python compares strings by code point).        *)
(***************************************************************************)
StrOrder ==
    <<" Fleet ", " Scope 1 ", "BBL", "Diesel ", "Fleet", "S1", "bbl", "coal", "custom",
      "diesel", "fleet", "g", "kg", "km", "l", "mile", "scope1", "scope2", "scope3", "therm">>

StrRank(s) == CHOOSE i \in 1..Len(StrOrder) : StrOrder[i] = s

\* lexicographic order on equally long tuples of rationals
LexLess(a, b) ==
    \E i \in 1..Len(a) :
        /\ RLess(a[i], b[i])
        /\ \A j \in 1..(i - 1) : a[j] = b[j]

\* the permutation a stable ascending sort applies: position -> source index
StableSortIdx(keys) ==
    [p \in 1..Len(keys) |->
        CHOOSE i \in 1..Len(keys) :
            Cardinality({j \in 1..Len(keys) :
                            \/ LexLess(keys[j], keys[i])
                            \/ (keys[j] = keys[i] /\ j < i)}) = p - 1]

StableSort(s, keys) == [p \in 1..Len(s) |-> s[StableSortIdx(keys)[p]]]

SelectIdx(s, Keep(_)) ==
    LET idx == {i \in 1..Len(s) : Keep(i)}
    IN  [p \in 1..Cardinality(idx) |->
            CHOOSE i \in idx : Cardinality({j \in idx : j < i}) = p - 1]

\* the subsequence of the elements whose index satisfies Keep, in order
FilterIdx(s, Keep(_)) == [p \in 1..Len(SelectIdx(s, Keep)) |-> s[SelectIdx(s, Keep)[p]]]

\* the value of F on the value of e, with e evaluated once
Then(e, F(_)) == CHOOSE v \in {F(x) : x \in {y \in {e} : y = y}} : TRUE

RECURSIVE SumSeq(_)
SumSeq(s) == IF s = << >> THEN Int2Rat(0) ELSE RAdd(s[1], SumSeq(Tail(s)))

Range(s) == {s[i] : i \in 1..Len(s)}

(***************************************************************************)
(* Data frames.                                                            *)
(***************************************************************************)
NoneDf == [none |-> TRUE, cols |-> {}, rows |-> << >>]

Frame(cols, rows) == [none |-> FALSE, cols |-> cols, rows |-> rows]

\* DataFrame.empty: no rows or no columns
IsEmpty(frame) == frame.rows = << >> \/ frame.cols = {}

\* a cell of a column the frame does not have reads as NaN
Cell(frame, row, col) ==
    IF col \in frame.cols
    THEN CASE col = "amount" -> row.amount
           [] col = "emission_factor" -> row.emission_factor
           [] col = "ch4" -> row.ch4
           [] col = "n2o" -> row.n2o
    ELSE NaN

(***************************************************************************)
(* normalize_units                                                         *)
(***************************************************************************)
NoWarning == [kind |-> "none", unit |-> "", rows |-> << >>, more |-> 0, units |-> {}]

SkippedWarning == [NoWarning EXCEPT !.kind = "skipped"]

MaxShownRows == 6

\* ConvertRow with the factor multiplied by the multiplier instead of divided
ConvertRow_FactorMultiplied(row) ==
    LET raw_unit == strip_lower(row.unit)
    IN  IF ~HasMapping(raw_unit) THEN row
        ELSE [row EXCEPT
                !.amount = IF notna(@) THEN RMul(@, UNIT_MAP[raw_unit][2]) ELSE @,
                !.emission_factor = IF notna(@) THEN RMul(@, UNIT_MAP[raw_unit][2]) ELSE @,
                !.unit = UNIT_MAP[raw_unit][1]]

\* ConvertRow with the raw unit label left on the converted row
ConvertRow_LabelKept(row) ==
    LET raw_unit == strip_lower(row.unit)
    IN  IF ~HasMapping(raw_unit) THEN row
        ELSE [row EXCEPT
                !.amount = IF notna(@) THEN RMul(@, UNIT_MAP[raw_unit][2]) ELSE @,
                !.emission_factor = IF notna(@) THEN RDiv(@, UNIT_MAP[raw_unit][2]) ELSE @]

\* one row of the conversion loop, on numerically coerced amount and factor
ConvertRow(row) ==
    LET raw_unit == strip_lower(row.unit)
    IN  IF ~HasMapping(raw_unit) THEN row
        ELSE LET canonical_unit == UNIT_MAP[raw_unit][1]
                 multiplier == UNIT_MAP[raw_unit][2]
             IN  IF multiplier.n <= 0 THEN row
                 ELSE [row EXCEPT
                         !.amount = IF notna(@) THEN RMul(@, multiplier) ELSE @,
                         !.emission_factor = IF notna(@) THEN RDiv(@, multiplier) ELSE @,
                         !.unit = canonical_unit]

IsUnknownUnit(row) ==
    LET raw_unit == strip_lower(row.unit)
    IN  ~HasMapping(raw_unit) /\ raw_unit # "" /\ raw_unit # "nan"

\* "from->to" entries of the rows whose label was rewritten
ConvertedUnits(rows) ==
    {<<strip_lower(rows[i].unit), UNIT_MAP[strip_lower(rows[i].unit)][1]>> :
        i \in {j \in 1..Len(rows) :
                  /\ HasMapping(strip_lower(rows[j].unit))
                  /\ UNIT_MAP[strip_lower(rows[j].unit)][2].n > 0
                  /\ strip_lower(rows[j].unit) # UNIT_MAP[strip_lower(rows[j].unit)][1]}}

\* unknown labels in first-seen order
UnknownLabels(rows) ==
    LET first(i) == /\ IsUnknownUnit(rows[i])
                    /\ \A j \in 1..(i - 1) : strip(rows[j].unit) # strip(rows[i].unit)
    IN  [p \in 1..Len(SelectIdx(rows, first)) |-> strip(rows[SelectIdx(rows, first)[p]].unit)]

\* UnknownWarning listing every affected row, however many
UnknownWarning_Uncapped(rows, label) ==
    LET hit(i) == IsUnknownUnit(rows[i]) /\ strip(rows[i].unit) = label
    IN  [NoWarning EXCEPT !.kind = "unknown", !.unit = label, !.rows = SelectIdx(rows, hit)]

UnknownWarning(rows, label) ==
    LET hit(i) == IsUnknownUnit(rows[i]) /\ strip(rows[i].unit) = label
        nums == SelectIdx(rows, hit)
    IN  [NoWarning EXCEPT
            !.kind = "unknown",
            !.unit = label,
            !.rows = SubSeq(nums, 1, IF Len(nums) > MaxShownRows THEN MaxShownRows ELSE Len(nums)),
            !.more = IF Len(nums) > MaxShownRows THEN Len(nums) - MaxShownRows ELSE 0]

UnitWarnings(rows) ==
    LET labels == UnknownLabels(rows)
        sorted == StableSort(labels, [i \in 1..Len(labels) |-> <<Int2Rat(StrRank(lower(labels[i])))>>])
        unknown == [i \in 1..Len(sorted) |-> UnknownWarning(rows, sorted[i])]
        conv == ConvertedUnits(rows)
    IN  unknown \o (IF conv # {} THEN <<[NoWarning EXCEPT !.kind = "converted", !.units = conv]>>
                                 ELSE << >>)

\* returns the normalised frame and the warning list
normalize_units(frame) ==
    IF IsEmpty(frame) THEN [df |-> frame, warnings |-> << >>]
    ELSE IF ~({"amount", "unit"} \subseteq frame.cols)
    THEN [df |-> frame, warnings |-> <<SkippedWarning>>]
    ELSE LET coerced == [i \in 1..Len(frame.rows) |->
                            [frame.rows[i] EXCEPT
                                !.amount = to_numeric(@),
                                !.emission_factor = to_numeric(Cell(frame, frame.rows[i], "emission_factor"))]]
         IN  [df |-> Frame(frame.cols \cup {"emission_factor"},
                           [i \in 1..Len(coerced) |-> ConvertRow(coerced[i])]),
              warnings |-> UnitWarnings(frame.rows)]

\* normalize_factor_units: only the unit label of a library row is rewritten
normalize_factor_units(factors) ==
    IF IsEmpty(factors) THEN factors
    ELSE [factors EXCEPT !.rows =
            [i \in 1..Len(factors.rows) |->
                LET unit == strip_lower(factors.rows[i].unit)
                IN  [factors.rows[i] EXCEPT
                        !.unit = IF HasMapping(unit) THEN UNIT_MAP[unit][1] ELSE unit]]]

(***************************************************************************)
(* apply_emission_factors                                                  *)
(***************************************************************************)
NA == "<NA>"

fillna_text(x, v) == IF x = NA THEN v ELSE x

\* a requested year of None is NaN; a requested region of None is the empty text
NoRegion == ""

\* the library with defaults for absent metadata columns and normalised keys
FactorDefaults(factors) ==
    [i \in 1..Len(factors.rows) |->
        [factors.rows[i] EXCEPT
            !.region = IF "region" \in factors.cols THEN @ ELSE "global",
            !.year = IF "year" \in factors.cols THEN @ ELSE NaN,
            !.source = IF "source" \in factors.cols THEN @ ELSE "unspecified",
            !.version = IF "version" \in factors.cols THEN @ ELSE "v1",
            !.activity = strip_lower(@),
            !.unit = strip_lower(@)]]

\* RegionKeeps without the "global" fallback
RegionKeeps_NoGlobalFallback(f, reg) ==
    reg # NoRegion => lower(f.region) = strip_lower(reg)

\* region filter of the resolver
RegionKeeps(f, reg) ==
    reg # NoRegion => lower(f.region) = strip_lower(reg) \/ lower(f.region) = "global"

\* year filter of the resolver
YearKeeps(f, yr) ==
    notna(yr) => isna(to_numeric(f.year)) \/ to_numeric(f.year) = yr

\* sort key of the resolver: activity, unit, year_numeric with NaN placed last
ResolverSortKey(f) ==
    <<Int2Rat(StrRank(f.activity)), Int2Rat(StrRank(f.unit)),
      Int2Rat(IF isna(to_numeric(f.year)) THEN 1 ELSE 0),
      IF isna(to_numeric(f.year)) THEN Int2Rat(0) ELSE to_numeric(f.year)>>

\* drop_duplicates(subset=[activity, unit], keep="last")
DropDuplicatesKeepLast(fs) ==
    FilterIdx(fs, LAMBDA i : \A j \in (i + 1)..Len(fs) :
                                ~(fs[j].activity = fs[i].activity /\ fs[j].unit = fs[i].unit))

\* the filtered, sorted and deduplicated lookup table
ResolverCandidates(factors, reg, yr) ==
    LET fs == FactorDefaults(factors)
        byRegion == FilterIdx(fs, LAMBDA i : RegionKeeps(fs[i], reg))
        byYear == FilterIdx(byRegion, LAMBDA i : YearKeeps(byRegion[i], yr))
        sorted == StableSort(byYear, [i \in 1..Len(byYear) |-> ResolverSortKey(byYear[i])])
    IN  DropDuplicatesKeepLast(sorted)

\* MergeRow with the library factor taking precedence over the supplied one
MergeRow_LookupFirst(row, lookup) ==
    LET hits == {i \in 1..Len(lookup) :
                    /\ lookup[i].activity = strip_lower(row.activity)
                    /\ lookup[i].unit = strip_lower(row.unit)}
        hit == IF hits = {} THEN 0 ELSE CHOOSE i \in hits : TRUE
        emission_factor_lookup == IF hit = 0 THEN NaN ELSE lookup[hit].emission_factor
    IN  [row EXCEPT
            !.emission_factor = fillna(emission_factor_lookup, to_numeric(@)),
            !.factor_source = fillna_text(IF hit = 0 THEN NA ELSE lookup[hit].source, "user_input"),
            !.factor_version = fillna_text(IF hit = 0 THEN NA ELSE lookup[hit].version, "n/a"),
            !.factor_region = fillna_text(IF hit = 0 THEN NA ELSE lookup[hit].region, "n/a"),
            !.factor_year = IF hit = 0 THEN NaN ELSE lookup[hit].year]

\* left merge of one record with the lookup table, then the fills
MergeRow(row, lookup) ==
    LET hits == {i \in 1..Len(lookup) :
                    /\ lookup[i].activity = strip_lower(row.activity)
                    /\ lookup[i].unit = strip_lower(row.unit)}
        hit == IF hits = {} THEN 0 ELSE CHOOSE i \in hits : TRUE
        emission_factor_lookup == IF hit = 0 THEN NaN ELSE lookup[hit].emission_factor
    IN  [row EXCEPT
            !.emission_factor = fillna(to_numeric(@), emission_factor_lookup),
            !.factor_source = fillna_text(IF hit = 0 THEN NA ELSE lookup[hit].source, "user_input"),
            !.factor_version = fillna_text(IF hit = 0 THEN NA ELSE lookup[hit].version, "n/a"),
            !.factor_region = fillna_text(IF hit = 0 THEN NA ELSE lookup[hit].region, "n/a"),
            !.factor_year = IF hit = 0 THEN NaN ELSE lookup[hit].year]

ProvenanceCols == {"factor_source", "factor_version", "factor_region", "factor_year"}

apply_emission_factors(frame, factors, reg, yr) ==
    LET lookup == ResolverCandidates(factors, reg, yr)
    IN  Frame(frame.cols \cup ProvenanceCols,
              [i \in 1..Len(frame.rows) |-> MergeRow(frame.rows[i], lookup)])

(***************************************************************************)
(* calculate_emissions                                                     *)
(***************************************************************************)
CO2E_CH4_GWP == Int2Rat(28)

CO2E_N2O_GWP == Int2Rat(265)

REQUIRED_COLUMNS == {"category", "activity", "unit", "amount", "emission_factor"}

SCOPE_MAP ==
    [s \in {"scope1", "scope_1", "scope 1", "s1", "scope2", "scope_2", "scope 2", "s2",
            "scope3", "scope_3", "scope 3", "s3"} |->
        CASE s \in {"scope1", "scope_1", "scope 1", "s1"} -> "scope1"
          [] s \in {"scope2", "scope_2", "scope 2", "s2"} -> "scope2"
          [] s \in {"scope3", "scope_3", "scope 3", "s3"} -> "scope3"]

\* _normalize_scope looking the raw label up, without trimming and lowercasing
_normalize_scope_RawLookup(value) ==
    IF value \in DOMAIN SCOPE_MAP THEN SCOPE_MAP[value] ELSE value

_normalize_scope(value) ==
    LET normalized == strip_lower(value)
    IN  IF normalized \in DOMAIN SCOPE_MAP THEN SCOPE_MAP[normalized] ELSE normalized

\* the distinct keys of a grouping, in ascending order of their ranks
SortedKeys(K, RankKey(_)) ==
    [p \in 1..Cardinality(K) |->
        CHOOSE k \in K : Cardinality({k2 \in K : LexLess(RankKey(k2), RankKey(k))}) = p - 1]

\* sum of Val over the rows that satisfy In
SumWhere(rows, In(_), Val(_)) ==
    LET sel == FilterIdx(rows, LAMBDA i : In(rows[i]))
    IN  SumSeq([i \in 1..Len(sel) |-> Val(sel[i])])

\* a column the input lacks is created as 0.0; every numeric column is coerced
CoerceNumericColumns(frame) ==
    LET cell(row, col) == IF col \in frame.cols THEN to_numeric(Cell(frame, row, col))
                          ELSE Int2Rat(0)
    IN  Frame(frame.cols \cup {"amount", "emission_factor", "ch4", "n2o"},
              [i \in 1..Len(frame.rows) |->
                  [frame.rows[i] EXCEPT
                      !.amount = cell(frame.rows[i], "amount"),
                      !.emission_factor = cell(frame.rows[i], "emission_factor"),
                      !.ch4 = cell(frame.rows[i], "ch4"),
                      !.n2o = cell(frame.rows[i], "n2o")]])

\* provenance defaults when no library is given
DefaultProvenance(frame) ==
    Frame(frame.cols \cup ProvenanceCols,
          [i \in 1..Len(frame.rows) |->
              [frame.rows[i] EXCEPT
                  !.factor_source = IF "factor_source" \in frame.cols THEN @ ELSE "user_input",
                  !.factor_version = IF "factor_version" \in frame.cols THEN @ ELSE "n/a",
                  !.factor_region = IF "factor_region" \in frame.cols THEN @ ELSE "n/a",
                  !.factor_year = IF "factor_year" \in frame.cols THEN @ ELSE NaN]])

\* DropInvalid keeping every row, a missing amount or factor read as zero
DropInvalid_ZeroFill(rows) ==
    [i \in 1..Len(rows) |->
        [rows[i] EXCEPT !.amount = fillna(@, Int2Rat(0)),
                        !.emission_factor = fillna(@, Int2Rat(0))]]

\* dropna(subset=["amount", "emission_factor"])
DropInvalid(rows) ==
    FilterIdx(rows, LAMBDA i : notna(rows[i].amount) /\ notna(rows[i].emission_factor))

\* Blend with the two warming potentials exchanged
Blend_GwpSwapped(row) ==
    LET co2 == RMul(row.amount, row.emission_factor)
        ch4 == RMul(RMul(row.amount, fillna(row.ch4, Int2Rat(0))), CO2E_N2O_GWP)
        n2o == RMul(RMul(row.amount, fillna(row.n2o, Int2Rat(0))), CO2E_CH4_GWP)
    IN  [row EXCEPT
            !.category = _normalize_scope(@),
            !.co2e_co2 = co2,
            !.co2e_ch4 = ch4,
            !.co2e_n2o = n2o,
            !.total_co2e = RAdd(RAdd(co2, ch4), n2o)]

\* per-gas contributions and the row total
Blend(row) ==
    LET co2 == RMul(row.amount, row.emission_factor)
        ch4 == RMul(RMul(row.amount, fillna(row.ch4, Int2Rat(0))), CO2E_CH4_GWP)
        n2o == RMul(RMul(row.amount, fillna(row.n2o, Int2Rat(0))), CO2E_N2O_GWP)
    IN  [row EXCEPT
            !.category = _normalize_scope(@),
            !.co2e_co2 = co2,
            !.co2e_ch4 = ch4,
            !.co2e_n2o = n2o,
            !.total_co2e = RAdd(RAdd(co2, ch4), n2o)]

\* SummaryDf with the groups ordered by ascending total
SummaryDf_Ascending(rows) ==
    LET K == {<<rows[i].category, rows[i].activity>> : i \in {j \in 1..Len(rows) : rows[j].activity # NA}}
        keys == SortedKeys(K, LAMBDA k : <<Int2Rat(StrRank(k[1])), Int2Rat(StrRank(k[2]))>>)
        grouped == [p \in 1..Len(keys) |->
                      [category |-> keys[p][1],
                       activity |-> keys[p][2],
                       amount |-> SumWhere(rows, LAMBDA r : <<r.category, r.activity>> = keys[p],
                                           LAMBDA r : r.amount),
                       total_co2e |-> SumWhere(rows, LAMBDA r : <<r.category, r.activity>> = keys[p],
                                               LAMBDA r : r.total_co2e)]]
    IN  StableSort(grouped, [p \in 1..Len(grouped) |->
                                <<grouped[p].total_co2e>>])

\* grouped by (category, activity), largest total first; groupby leaves out
\* the rows whose group key is missing
SummaryDf(rows) ==
    LET K == {<<rows[i].category, rows[i].activity>> : i \in {j \in 1..Len(rows) : rows[j].activity # NA}}
        keys == SortedKeys(K, LAMBDA k : <<Int2Rat(StrRank(k[1])), Int2Rat(StrRank(k[2]))>>)
        grouped == [p \in 1..Len(keys) |->
                      [category |-> keys[p][1],
                       activity |-> keys[p][2],
                       amount |-> SumWhere(rows, LAMBDA r : <<r.category, r.activity>> = keys[p],
                                           LAMBDA r : r.amount),
                       total_co2e |-> SumWhere(rows, LAMBDA r : <<r.category, r.activity>> = keys[p],
                                               LAMBDA r : r.total_co2e)]]
    IN  StableSort(grouped, [p \in 1..Len(grouped) |->
                                <<RMul(Int2Rat(-1), grouped[p].total_co2e)>>])

\* ScopeDf with the first record of a group in place of the group's sum
ScopeDf_FirstOfGroup(rows) ==
    LET K == {rows[i].category : i \in 1..Len(rows)}
        keys == SortedKeys(K, LAMBDA k : <<Int2Rat(StrRank(k))>>)
    IN  [p \in 1..Len(keys) |->
            [category |-> keys[p],
             total_co2e |-> rows[CHOOSE i \in 1..Len(rows) :
                                    /\ rows[i].category = keys[p]
                                    /\ \A j \in 1..(i - 1) : rows[j].category # keys[p]].total_co2e]]

\* grouped by category, sorted by category
ScopeDf(rows) ==
    LET K == {rows[i].category : i \in 1..Len(rows)}
        keys == SortedKeys(K, LAMBDA k : <<Int2Rat(StrRank(k))>>)
    IN  [p \in 1..Len(keys) |->
            [category |-> keys[p],
             total_co2e |-> SumWhere(rows, LAMBDA r : r.category = keys[p],
                                     LAMBDA r : r.total_co2e)]]

ProvenanceKey(r) == <<r.activity, r.unit, r.factor_source, r.factor_version, r.factor_region>>

\* grouped by (activity, unit, source, version, region): factor sum and row count
FactorProvenanceDf(rows) ==
    LET K == {ProvenanceKey(rows[i]) : i \in {j \in 1..Len(rows) : rows[j].activity # NA}}
    IN  {[key |-> k,
          factor_sum |-> SumWhere(rows, LAMBDA r : ProvenanceKey(r) = k,
                                  LAMBDA r : r.emission_factor),
          rows |-> Cardinality({i \in 1..Len(rows) : ProvenanceKey(rows[i]) = k})] : k \in K}

ErrorResult(kind, missing) ==
    [status |-> "error", error |-> kind, missing |-> missing,
     detailed_df |-> << >>, summary_df |-> << >>, scope_df |-> << >>,
     factor_provenance_df |-> {}, conversion_warnings |-> << >>,
     total_co2e |-> NaN, by_scope |-> << >>]

\* InputError with the column check made before the emptiness check
InputError_ColumnsFirst(frame) ==
    IF REQUIRED_COLUMNS \ frame.cols # {} THEN "missing_columns"
    ELSE IF frame.none \/ IsEmpty(frame) THEN "empty_input"
    ELSE ""

\* the structural checks, in the order the code makes them
InputError(frame) ==
    IF frame.none \/ IsEmpty(frame) THEN "empty_input"
    ELSE IF REQUIRED_COLUMNS \ frame.cols # {} THEN "missing_columns"
    ELSE ""

\* the aggregates of the validated, blended records
Aggregate(working, warnings) ==
    Then(ScopeDf(working), LAMBDA scope_df :
        [status |-> "ok", error |-> "", missing |-> {},
         detailed_df |-> working,
         summary_df |-> SummaryDf(working),
         scope_df |-> scope_df,
         factor_provenance_df |-> FactorProvenanceDf(working),
         conversion_warnings |-> warnings,
         total_co2e |-> SumSeq([i \in 1..Len(working) |-> working[i].total_co2e]),
         by_scope |-> [c \in {scope_df[p].category : p \in 1..Len(scope_df)} |->
                         (CHOOSE r \in Range(scope_df) : r.category = c).total_co2e]])

\* factors from the library when one is given, provenance defaults otherwise
Resolve(frame, factors, reg, yr) ==
    IF ~factors.none /\ ~IsEmpty(factors)
    THEN Then(normalize_factor_units(factors), LAMBDA library :
             apply_emission_factors(frame, library, reg, yr))
    ELSE DefaultProvenance(frame)

calculate_emissions(frame, factors, reg, yr) ==
    IF InputError(frame) = "empty_input" THEN ErrorResult("empty_input", {})
    ELSE IF InputError(frame) = "missing_columns"
    THEN ErrorResult("missing_columns", REQUIRED_COLUMNS \ frame.cols)
    ELSE Then(CoerceNumericColumns(frame), LAMBDA coerced :
         Then(normalize_units(coerced), LAMBDA normalized :
         Then(Resolve(normalized.df, factors, reg, yr), LAMBDA resolved :
         Then(DropInvalid(resolved.rows), LAMBDA valid :
             IF valid = << >> THEN ErrorResult("no_valid_rows", {})
             ELSE Then([i \in 1..Len(valid) |-> Blend(valid[i])], LAMBDA working :
                      Aggregate(working, normalized.warnings))))))

(***************************************************************************)
(* Storage: the factor library table and its read paths.                   *)
(***************************************************************************)
FACTOR_COLUMNS ==
    {"id", "activity", "unit", "emission_factor", "scope", "scope_category", "region",
     "year", "source", "version", "active", "created_at", "updated_at"}

\* factors_for_calculation: active rows for a region/year, one per (activity, unit)
StorageSortKey(f) ==
    <<Int2Rat(StrRank(f.activity)), Int2Rat(StrRank(f.unit)),
      fillna(to_numeric(f.year), Int2Rat(-1)),
      Int2Rat(IF contains_ipcc(lower(f.source)) THEN 0 ELSE 1),
      Int2Rat(f.updated_at)>>

\* the selection of factors_for_calculation without WHERE active = 1
StorageSelects_AnyActive(f, reg, yr) ==
    /\ reg # NoRegion => f.region = strip_lower(reg) \/ f.region = "global"
    /\ (notna(yr) /\ yr.n # 0) => f.year = yr \/ isna(f.year)

StorageSelects(f, reg, yr) ==
    /\ f.active = 1
    /\ reg # NoRegion => f.region = strip_lower(reg) \/ f.region = "global"
    /\ (notna(yr) /\ yr.n # 0) => f.year = yr \/ isna(f.year)

factors_for_calculation(table, reg, yr) ==
    LET selected == FilterIdx(table, LAMBDA i : StorageSelects(table[i], reg, yr))
        sorted == StableSort(selected, [i \in 1..Len(selected) |-> StorageSortKey(selected[i])])
    IN  Frame(FACTOR_COLUMNS, DropDuplicatesKeepLast(sorted))

(***************************************************************************)
(* Reduction scenarios.  A reduction dict is the sequence of its           *)
(* <<key, percentage>> items in insertion order; an absent target is NaN.  *)
(***************************************************************************)
RemoveSpacesTable ==
    [s \in {" scope 1 ", "scope 1", " fleet ", "scope 2"} |->
        CASE s = " scope 1 " -> "scope1"
          [] s = "scope 1" -> "scope1"
          [] s = " fleet " -> "fleet"
          [] s = "scope 2" -> "scope2"]

\* str.replace(" ", "")
remove_spaces(s) == IF s \in DOMAIN RemoveSpacesTable THEN RemoveSpacesTable[s] ELSE s

\* _safe_pct without the clamp
_safe_pct_Unclamped(value) == value

_safe_pct(value) == RMax(Int2Rat(0), RMin(Int2Rat(100), value))

\* 1 - reduction / 100.0
Remaining(reduction) == RSub(Int2Rat(1), RDiv(reduction, Int2Rat(100)))

\* the category and activity labels of the scenario copy
ScenarioLabels(rows) ==
    [i \in 1..Len(rows) |->
        [rows[i] EXCEPT !.category = remove_spaces(lower(@)),
                        !.activity = strip_lower(@)]]

\* one pass of a reduction loop: the rows under the mask get their amount
\* coerced and scaled
Reduce(rows, masked(_), reduction) ==
    [i \in 1..Len(rows) |->
        IF masked(rows[i])
        THEN [rows[i] EXCEPT !.amount = RMul(to_numeric(@), Remaining(_safe_pct(reduction)))]
        ELSE rows[i]]

RECURSIVE ScopePass(_, _)
ScopePass(rows, scope_reduction_pct) ==
    IF scope_reduction_pct = << >> THEN rows
    ELSE LET scope == Head(scope_reduction_pct)[1]
             reduction == Head(scope_reduction_pct)[2]
         IN  ScopePass(Reduce(rows,
                              LAMBDA r : r.category = remove_spaces(lower(strip(scope))),
                              reduction),
                       Tail(scope_reduction_pct))

RECURSIVE ActivityPass(_, _)
ActivityPass(rows, activity_reduction_pct) ==
    IF activity_reduction_pct = << >> THEN rows
    ELSE LET activity == Head(activity_reduction_pct)[1]
             reduction == Head(activity_reduction_pct)[2]
         IN  ActivityPass(Reduce(rows, LAMBDA r : r.activity = strip_lower(activity), reduction),
                          Tail(activity_reduction_pct))

ScenarioError(kind) ==
    [status |-> "error", error |-> kind, baseline |-> ErrorResult(kind, {}),
     scenario |-> ErrorResult(kind, {}), baseline_total |-> NaN, scenario_total |-> NaN,
     abatement |-> NaN, abatement_pct |-> NaN, meets_target |-> "None",
     target_total |-> NaN, scenario_df |-> NoneDf]

\* AbatementPct without the guard on a zero baseline
AbatementPct_Unguarded(abatement, baseline_total) ==
    RMul(RDiv(abatement, baseline_total), Int2Rat(100))

AbatementPct(abatement, baseline_total) ==
    IF baseline_total.n # 0 THEN RMul(RDiv(abatement, baseline_total), Int2Rat(100))
    ELSE Int2Rat(0)

MeetsTarget(scenario_total, target_total) ==
    IF isna(target_total) THEN "None"
    ELSE IF ~RLess(target_total, scenario_total) THEN "True" ELSE "False"

Compare(baseline, scenario, scenario_df, target_total) ==
    LET baseline_total == baseline.total_co2e
        scenario_total == scenario.total_co2e
        abatement == RSub(baseline_total, scenario_total)
    IN  [status |-> "ok", error |-> "", baseline |-> baseline, scenario |-> scenario,
         baseline_total |-> baseline_total, scenario_total |-> scenario_total,
         abatement |-> abatement,
         abatement_pct |-> AbatementPct(abatement, baseline_total),
         meets_target |-> MeetsTarget(scenario_total, target_total),
         target_total |-> target_total, scenario_df |-> scenario_df]

run_reduction_scenario(raw_df, factors, scope_reduction_pct, activity_reduction_pct, target_total) ==
    IF raw_df.none \/ IsEmpty(raw_df) THEN ScenarioError("empty_input")
    ELSE Then(calculate_emissions(raw_df, factors, NoRegion, NaN), LAMBDA baseline :
         IF baseline.status = "error" THEN ScenarioError(baseline.error)
         ELSE Then(ScenarioLabels(raw_df.rows), LAMBDA labelled :
              Then(ScopePass(labelled, scope_reduction_pct), LAMBDA scoped :
              Then(Frame(raw_df.cols, ActivityPass(scoped, activity_reduction_pct)),
                   LAMBDA scenario_df :
              Then(calculate_emissions(scenario_df, factors, NoRegion, NaN), LAMBDA scenario :
                  IF scenario.status = "error" THEN ScenarioError(scenario.error)
                  ELSE Compare(baseline, scenario, scenario_df, target_total))))))

(***************************************************************************)
(* Life-cycle assessment.  An inventory is a data frame with the columns   *)
(* stage, amount and emission_factor; the per-stage allocation dict is the *)
(* sequence of its <<stage, factor>> items in insertion order.             *)
(***************************************************************************)
STAGES == <<"Materials", "Transport", "Processing", "Distribution", "End-Of-Life">>

BOUNDARY_PRESETS ==
    [b \in {"cradle-to-grave", "cradle-to-gate", "gate-to-gate"} |->
        CASE b = "cradle-to-grave" ->
                 <<"Materials", "Transport", "Processing", "Distribution", "End-Of-Life">>
          [] b = "cradle-to-gate" -> <<"Materials", "Transport", "Processing">>
          [] b = "gate-to-gate" -> <<"Processing">>]

TitleTable ==
    [s \in {"materials", "packaging", "End-of-life"} |->
        CASE s = "materials" -> "Materials"
          [] s = "packaging" -> "Packaging"
          [] s = "End-of-life" -> "End-Of-Life"]

\* str.title()
title(s) == IF s \in DOMAIN TitleTable THEN TitleTable[s] ELSE s

\* str.replace("-of-", "-Of-")
replace_of(s) == IF s = "End-of-life" THEN "End-Of-life" ELSE s

LcaColumns == {"stage", "amount", "emission_factor"}

LcaError(kind, missing) ==
    [status |-> "error", error |-> kind, missing |-> missing, boundary |-> "",
     allocation_method |-> "", total_emissions |-> NaN, hotspot_categories |-> << >>,
     by_stage |-> << >>, summary_df |-> << >>, sankey_df |-> << >>,
     sensitivity |-> [pct |-> NaN, low_total |-> NaN, high_total |-> NaN]]

\* the stage label normalised and the numeric columns coerced
LcaCoerce(rows) ==
    [i \in 1..Len(rows) |->
        [rows[i] EXCEPT !.stage = replace_of(title(strip(@))),
                        !.amount = to_numeric(@),
                        !.emission_factor = to_numeric(@)]]

\* LcaValid without the filter on negative amounts
LcaValid_KeepNegative(rows) ==
    FilterIdx(rows, LAMBDA i : notna(rows[i].amount) /\ notna(rows[i].emission_factor))

\* dropna on stage, amount and emission_factor, then amount >= 0
LcaValid(rows) ==
    FilterIdx(rows, LAMBDA i : /\ notna(rows[i].amount) /\ notna(rows[i].emission_factor)
                               /\ rows[i].amount.n >= 0)

\* BoundaryFilter with every boundary treated as unrecognised
BoundaryFilter_KeepAll(rows, boundary) == rows

BoundaryFilter(rows, boundary) ==
    IF strip_lower(boundary) \in DOMAIN BOUNDARY_PRESETS
    THEN FilterIdx(rows, LAMBDA i :
             rows[i].stage \in Range(BOUNDARY_PRESETS[strip_lower(boundary)]))
    ELSE rows

\* max(0.0, min(1.0, factor))
ClampFactor(factor) == RMax(Int2Rat(0), RMin(Int2Rat(1), factor))

RECURSIVE StageOverrides(_, _)
StageOverrides(rows, stage_allocation) ==
    IF stage_allocation = << >> THEN rows
    ELSE LET stage == Head(stage_allocation)[1]
             factor == Head(stage_allocation)[2]
         IN  StageOverrides(
                 [i \in 1..Len(rows) |->
                     IF lower(rows[i].stage) = strip_lower(stage)
                     THEN [rows[i] EXCEPT !.allocation_factor = ClampFactor(factor)]
                     ELSE rows[i]],
                 Tail(stage_allocation))

\* the default factor on every row, then the per-stage overrides
Allocate(rows, default_allocation_factor, stage_allocation) ==
    StageOverrides([i \in 1..Len(rows) |->
                       [rows[i] EXCEPT !.allocation_factor = ClampFactor(default_allocation_factor)]],
                   stage_allocation)

\* AdjustRow with the allocation factor applied whatever the method
AdjustRow_AlwaysAllocated(row, allocation_method) ==
    LET adjusted == RMul(row.emission_factor, row.allocation_factor)
    IN  [row EXCEPT !.adjusted_emission_factor = adjusted,
                    !.stage_emissions = RMul(row.amount, adjusted)]

AdjustRow(row, allocation_method) ==
    LET adjusted == IF allocation_method # "none"
                    THEN RMul(row.emission_factor, row.allocation_factor)
                    ELSE row.emission_factor
    IN  [row EXCEPT !.adjusted_emission_factor = adjusted,
                    !.stage_emissions = RMul(row.amount, adjusted)]

\* OrderedStages with the custom stages put before the canonical ones
OrderedStages_CustomFirst(rows) ==
    LET first == SelectIdx(rows, LAMBDA i : /\ rows[i].stage \notin Range(STAGES)
                                            /\ \A j \in 1..(i - 1) : rows[j].stage # rows[i].stage)
    IN  [p \in 1..Len(first) |-> rows[first[p]].stage] \o STAGES

\* the canonical stages, then the custom stages in first-seen order
OrderedStages(rows) ==
    LET first == SelectIdx(rows, LAMBDA i : /\ rows[i].stage \notin Range(STAGES)
                                            /\ \A j \in 1..(i - 1) : rows[j].stage # rows[i].stage)
    IN  STAGES \o [p \in 1..Len(first) |-> rows[first[p]].stage]

\* one row per observed stage, in the order of the categories
StageSummary(rows, ordered_stages) ==
    LET observed == FilterIdx(ordered_stages,
                              LAMBDA p : \E i \in 1..Len(rows) : rows[i].stage = ordered_stages[p])
        of(stage) == FilterIdx(rows, LAMBDA i : rows[i].stage = stage)
    IN  [p \in 1..Len(observed) |->
            [stage |-> observed[p],
             total_amount |-> SumSeq([i \in 1..Len(of(observed[p])) |-> of(observed[p])[i].amount]),
             total_emissions |->
                 SumSeq([i \in 1..Len(of(observed[p])) |-> of(observed[p])[i].stage_emissions]),
             avg_allocation_factor |->
                 RDiv(SumSeq([i \in 1..Len(of(observed[p])) |->
                                 of(observed[p])[i].allocation_factor]),
                      Int2Rat(Len(of(observed[p]))))]]

HotspotCount == 3

\* sort_values("total_emissions", ascending=False).head(3)
Hotspots(summary_df) ==
    LET sorted == StableSort(summary_df, [p \in 1..Len(summary_df) |->
                                             <<RMul(Int2Rat(-1), summary_df[p].total_emissions)>>])
    IN  [p \in 1..(IF Len(sorted) < HotspotCount THEN Len(sorted) ELSE HotspotCount) |->
            [stage |-> sorted[p].stage, total_emissions |-> sorted[p].total_emissions]]

\* Sensitivity with the requested percentage used as it is
Sensitivity_Unclamped(rows, sensitivity_pct) ==
    LET pct == sensitivity_pct
        low_multiplier == RSub(Int2Rat(1), RDiv(pct, Int2Rat(100)))
        high_multiplier == RAdd(Int2Rat(1), RDiv(pct, Int2Rat(100)))
    IN  [pct |-> pct,
         low_total |-> SumSeq([i \in 1..Len(rows) |->
                                  RMul(rows[i].stage_emissions, low_multiplier)]),
         high_total |-> SumSeq([i \in 1..Len(rows) |->
                                   RMul(rows[i].stage_emissions, high_multiplier)])]

Sensitivity(rows, sensitivity_pct) ==
    LET pct == RMax(Int2Rat(0), sensitivity_pct)
        low_multiplier == RSub(Int2Rat(1), RDiv(pct, Int2Rat(100)))
        high_multiplier == RAdd(Int2Rat(1), RDiv(pct, Int2Rat(100)))
    IN  [pct |-> pct,
         low_total |-> SumSeq([i \in 1..Len(rows) |->
                                  RMul(rows[i].stage_emissions, low_multiplier)]),
         high_total |-> SumSeq([i \in 1..Len(rows) |->
                                   RMul(rows[i].stage_emissions, high_multiplier)])]

LcaReport(rows, summary_df, boundary, allocation_method, sensitivity_pct) ==
    [status |-> "ok", error |-> "", missing |-> {},
     boundary |-> boundary,
     allocation_method |-> allocation_method,
     total_emissions |-> SumSeq([p \in 1..Len(summary_df) |-> summary_df[p].total_emissions]),
     hotspot_categories |-> Hotspots(summary_df),
     by_stage |-> [p \in 1..Len(summary_df) |->
                      <<summary_df[p].stage, summary_df[p].total_emissions>>],
     summary_df |-> summary_df,
     sankey_df |-> [p \in 1..Len(summary_df) |->
                       [source |-> "System Boundary", target |-> summary_df[p].stage,
                        value |-> summary_df[p].total_emissions]],
     sensitivity |-> Sensitivity(rows, sensitivity_pct)]

run_lca(model_inputs, boundary, allocation_method, default_allocation_factor, stage_allocation, sensitivity_pct) ==
    IF model_inputs.none THEN LcaError("model_inputs", {})
    ELSE IF LcaColumns \ model_inputs.cols # {}
    THEN LcaError("missing_columns", LcaColumns \ model_inputs.cols)
    ELSE Then(LcaValid(LcaCoerce(model_inputs.rows)), LAMBDA valid :
         IF valid = << >> THEN LcaError("no_valid_rows", {})
         ELSE Then(BoundaryFilter(valid, boundary), LAMBDA bounded :
              IF bounded = << >> THEN LcaError("boundary_empty", {})
              ELSE Then(Allocate(bounded, default_allocation_factor, stage_allocation),
                        LAMBDA allocated :
                   Then([i \in 1..Len(allocated) |->
                            AdjustRow(allocated[i], strip_lower(allocation_method))],
                        LAMBDA rows :
                   Then(StageSummary(rows, OrderedStages(rows)), LAMBDA summary_df :
                       LcaReport(rows, summary_df, boundary,
                                 strip_lower(allocation_method), sensitivity_pct))))))

(***************************************************************************)
(* Records and library rows.                                               *)
(***************************************************************************)
Row(category, activity, unit, amount, emission_factor, ch4, n2o) ==
    [category |-> category, activity |-> activity, unit |-> unit, amount |-> amount,
     emission_factor |-> emission_factor, ch4 |-> ch4, n2o |-> n2o, index |-> 0,
     factor_source |-> NA, factor_version |-> NA, factor_region |-> NA, factor_year |-> NaN,
     co2e_co2 |-> NaN, co2e_ch4 |-> NaN, co2e_n2o |-> NaN, total_co2e |-> NaN]

Factor(id, activity, unit, emission_factor, reg, yr, source, version, updated_at, active) ==
    [id |-> id, activity |-> activity, unit |-> unit, emission_factor |-> emission_factor,
     region |-> reg, year |-> yr, source |-> source, version |-> version,
     updated_at |-> updated_at, active |-> active]

LcaRow(stage, amount, emission_factor) ==
    [stage |-> stage, amount |-> amount, emission_factor |-> emission_factor, index |-> 0,
     allocation_factor |-> NaN, adjusted_emission_factor |-> NaN, stage_emissions |-> NaN]

SeqsUpTo(U, n) == UNION {[1..k -> U] : k \in 0..n}

ActivityColumns == REQUIRED_COLUMNS \cup {"ch4", "n2o"}

LibraryColumns == {"activity", "unit", "emission_factor", "region", "year", "source", "version"}

\* pd.DataFrame(records): the rows get the default index 0, 1, 2, ...
DataFrame(cols, rows) ==
    Frame(cols, [i \in 1..Len(rows) |-> [rows[i] EXCEPT !.index = i - 1]])

(***************************************************************************)
(* Operations.  Every engine call works on copies of the frames it is      *)
(* given; seen is the set of the calls made so far with what they returned.*)
(* A call follows the construction of its inputs or another call.          *)
(***************************************************************************)
\* the engine calls take no keyword arguments besides the context
NoArgs == << >>

NoResult == [ErrorResult("", {}) EXCEPT !.status = "none"]

EngineOps ==
    {"calculate_emissions", "apply_emission_factors", "normalize_units",
     "run_reduction_scenario", "run_lca"}

LibraryOps ==
    {"init_database", "upsert_factor", "delete_factor", "list_factors"}

\* the frame the caller holds after a call whose writes went to working
Caller_Aliased(frame, working) == working

\* working = frame.copy(): the writes go to the copy, the caller's frame stays
Caller(frame, working) == frame

\* a store in which nothing was saved yet
FreshStore ==
    /\ sqlite_sequence = [factor_library |-> Len(db_factors), analysis_runs |-> 0]
    /\ analysis_runs = << >>
    /\ seen = {}

CalculateEmissions ==
    /\ op \in ({"init", "factors_for_calculation"} \cup EngineOps) \ {"calculate_emissions"}
    /\ result' = calculate_emissions(df, factors_df, region, year)
    /\ df' = Caller(df, IF InputError(df) = "" THEN CoerceNumericColumns(df) ELSE df)
    /\ op' = "calculate_emissions"
    /\ seen' = seen \cup {[call |-> "calculate_emissions", returned |-> result']}
    /\ UNCHANGED <<factors_df, db_factors, sqlite_sequence, analysis_runs, region, year, args>>

NormalizeUnits ==
    /\ op \in ({"init"} \cup EngineOps) \ {"normalize_units"}
    /\ ~df.none
    /\ result' = normalize_units(df)
    /\ df' = Caller(df, result'.df)
    /\ op' = "normalize_units"
    /\ seen' = seen \cup {[call |-> "normalize_units", returned |-> result']}
    /\ UNCHANGED <<factors_df, db_factors, sqlite_sequence, analysis_runs, region, year, args>>

ApplyEmissionFactors ==
    /\ op \in ({"init", "factors_for_calculation"} \cup EngineOps) \ {"apply_emission_factors"}
    /\ ~df.none /\ REQUIRED_COLUMNS \subseteq df.cols
    /\ ~factors_df.none
    /\ result' = apply_emission_factors(df, factors_df, region, year)
    /\ df' = Caller(df, result')
    /\ factors_df' = Caller(factors_df, [factors_df EXCEPT !.rows = FactorDefaults(factors_df)])
    /\ op' = "apply_emission_factors"
    /\ seen' = seen \cup {[call |-> "apply_emission_factors", returned |-> result']}
    /\ UNCHANGED <<db_factors, sqlite_sequence, analysis_runs, region, year, args>>

FactorsForCalculation ==
    /\ op \in (IF factors_df.none THEN {"init"} ELSE {}) \cup LibraryOps
    /\ factors_df' = factors_for_calculation(db_factors, region, year)
    /\ op' = "factors_for_calculation"
    /\ UNCHANGED <<df, db_factors, sqlite_sequence, analysis_runs, region, year, args, result, seen>>

RunReductionScenario ==
    /\ op \in ({"init"} \cup EngineOps) \ {"run_reduction_scenario"}
    /\ result' = run_reduction_scenario(df, factors_df, args.scope_reduction_pct,
                                        args.activity_reduction_pct, args.target_total)
    /\ df' = Caller(df, IF result'.status = "ok" THEN result'.scenario_df ELSE df)
    /\ op' = "run_reduction_scenario"
    /\ seen' = seen \cup {[call |-> "run_reduction_scenario", returned |-> result']}
    /\ UNCHANGED <<factors_df, db_factors, sqlite_sequence, analysis_runs, region, year, args>>

RunLca ==
    /\ op \in ({"init"} \cup EngineOps) \ {"run_lca"}
    /\ result' = run_lca(df, args.boundary, args.allocation_method,
                         args.default_allocation_factor, args.stage_allocation,
                         args.sensitivity_pct)
    /\ df' = Caller(df, IF ~df.none /\ LcaColumns \subseteq df.cols
                        THEN [df EXCEPT !.rows = LcaCoerce(df.rows)] ELSE df)
    /\ op' = "run_lca"
    /\ seen' = seen \cup {[call |-> "run_lca", returned |-> result']}
    /\ UNCHANGED <<factors_df, db_factors, sqlite_sequence, analysis_runs, region, year, args>>

\* the caller normalises the frame it got back once more
NormalizeUnitsAgain ==
    /\ op = "normalize_units"
    /\ df' = result.df
    /\ result' = normalize_units(result.df)
    /\ op' = "normalize_units_again"
    /\ seen' = seen \cup {[call |-> "normalize_units_again", returned |-> result']}
    /\ UNCHANGED <<factors_df, db_factors, sqlite_sequence, analysis_runs, region, year, args>>

(***************************************************************************)
(* Quantification: record sets of up to MaxRows rows against a fixed       *)
(* library.                                                                *)
(***************************************************************************)
CalcKeys ==
    {<<"S1", "diesel", "l">>, <<" Scope 1 ", "Diesel ", "mile">>,
     <<" Fleet ", "coal", "G">>, <<"scope2", "coal", "bbl">>}

CalcValues ==
    {<<Int2Rat(10), Int2Rat(2)>>, <<Int2Rat(10), NaN>>, <<Int2Rat(-5), Int2Rat(2)>>,
     <<TextCell, Int2Rat(2)>>, <<Int2Rat(10), Int2Rat(-2)>>}

\* every record carries its three labels: parse_excel drops the rows without
\* one and the manual builder labels each row it writes
CalcRows ==
    {Row(k[1], k[2], k[3], v[1], v[2], NaN, NaN) : k \in CalcKeys, v \in CalcValues}
    \cup {Row(k[1], k[2], k[3], Int2Rat(10), Int2Rat(2), Rat(1, 100), Rat(1, 1000)) : k \in CalcKeys}

CalcColumns ==
    {ActivityColumns, REQUIRED_COLUMNS, REQUIRED_COLUMNS \ {"emission_factor"},
     {"activity", "amount"}}

CalcLibraryRows ==
    <<Factor(1, "diesel", "l", Int2Rat(3), "global", NaN, "ipcc", "2006", 1, 1),
      Factor(2, "diesel", "Mile", Int2Rat(4), "global", NaN, "custom", "v2", 1, 1)>>

CalcLibraries ==
    {NoneDf, Frame(LibraryColumns, << >>), Frame(LibraryColumns, CalcLibraryRows),
     Frame({"activity", "unit", "emission_factor"}, CalcLibraryRows)}

InitCalc ==
    /\ \/ df = NoneDf
       \/ \E c \in CalcColumns, n \in 0..MaxRows :
             \E rows \in [1..n -> CalcRows] : df = DataFrame(c, rows)
    /\ factors_df \in CalcLibraries
    /\ db_factors = << >>
    /\ region = NoRegion
    /\ year = NaN
    /\ args = NoArgs
    /\ op = "init"
    /\ result = NoResult
    /\ FreshStore

NextCalc == CalculateEmissions

SpecCalc == InitCalc /\ [][NextCalc]_vars

(***************************************************************************)
(* Properties of the quantification core.                                  *)
(***************************************************************************)
Calculated == op = "calculate_emissions"

CalculatedOk == Calculated /\ result.status = "ok"

\* the input record an output record was computed from
InputOf(r) == df.rows[r.index + 1]

\* the gas factor the caller gave: 0 when the column or the cell is missing
GasInput(r, col) ==
    IF col \in df.cols THEN fillna(to_numeric(Cell(df, InputOf(r), col)), Int2Rat(0))
    ELSE Int2Rat(0)

\* the canonical unit label of a unit label
CanonicalUnit(u) == IF HasMapping(strip_lower(u)) THEN UNIT_MAP[strip_lower(u)][1] ELSE strip_lower(u)

\* the library rows an input record can be resolved from, with no region/year context
LibraryMatches(row) ==
    IF factors_df.none THEN {}
    ELSE {f \in Range(factors_df.rows) :
             /\ strip_lower(f.activity) = strip_lower(row.activity)
             /\ CanonicalUnit(f.unit) = CanonicalUnit(row.unit)}

\* an input record with a numeric amount and a supplied or resolvable factor
Survives(row) ==
    /\ notna(to_numeric(row.amount))
    /\ notna(to_numeric(row.emission_factor)) \/ LibraryMatches(row) # {}

Survivors == {i \in 1..Len(df.rows) : Survives(df.rows[i])}

\* the blending formula on every output record, and the grand total as their sum
BlendFormulaHolds ==
    /\ \A r \in Range(result.detailed_df) :
          r.total_co2e =
              RMul(r.amount,
                   RAdd(r.emission_factor,
                        RAdd(RMul(GasInput(r, "ch4"), Int2Rat(28)),
                             RMul(GasInput(r, "n2o"), Int2Rat(265)))))
    /\ result.total_co2e =
          SumSeq([i \in 1..Len(result.detailed_df) |-> result.detailed_df[i].total_co2e])

\* the single record amount=10, EF=2.0, ch4=0.01, n2o=0.001 in a canonical unit
IsBlendExample ==
    /\ Len(df.rows) = 1 /\ df.cols = ActivityColumns
    /\ df.rows[1].unit = "l" /\ df.rows[1].amount = Int2Rat(10)
    /\ df.rows[1].emission_factor = Int2Rat(2)
    /\ df.rows[1].ch4 = Rat(1, 100) /\ df.rows[1].n2o = Rat(1, 1000)

\* C1 (as amended): every surviving record has total_co2e =
\* amount*emission_factor + amount*ch4*28 + amount*n2o*265 on its normalised
\* amount and effective factor, a missing ch4 or n2o counting as 0; the grand
\* total is the sum of the per-record totals; amount=10, EF=2, ch4=0.01,
\* n2o=0.001 gives 25.45.
C1_BlendedTotal ==
    CalculatedOk =>
        /\ BlendFormulaHolds
        /\ IsBlendExample => result.total_co2e = Rat(2545, 100)

\* C1 (as claimed): the same, with the example giving 22.33.
C1_AsClaimed ==
    CalculatedOk =>
        /\ BlendFormulaHolds
        /\ IsBlendExample => result.total_co2e = Rat(2233, 100)

C1_Witness ==
    /\ CalculatedOk
    /\ IsBlendExample
    /\ result.detailed_df[1].co2e_ch4 = Rat(28, 10)
    /\ result.detailed_df[1].co2e_n2o = Rat(265, 100)

\* C8: a record whose amount is not numeric, or whose factor is absent and
\* not resolvable from the library, is dropped: the output holds exactly the
\* surviving records, the totals and summaries are those of the survivors
\* alone, and the calculation fails only when no record survives.
C8_GapsAreDropped ==
    (Calculated /\ InputError(df) = "") =>
        /\ result.status = "error" <=> Survivors = {}
        /\ result.status = "ok" =>
              /\ {r.index + 1 : r \in Range(result.detailed_df)} = Survivors
              /\ Len(result.detailed_df) = Cardinality(Survivors)
              /\ result.total_co2e =
                    SumSeq([i \in 1..Len(result.detailed_df) |-> result.detailed_df[i].total_co2e])
              /\ DOMAIN result.by_scope =
                    {_normalize_scope(df.rows[i].category) : i \in Survivors}
              /\ {<<g.category, g.activity>> : g \in Range(result.summary_df)} =
                    {<<_normalize_scope(df.rows[i].category), df.rows[i].activity>> : i \in Survivors}

C8_Witness ==
    /\ CalculatedOk
    /\ Len(df.rows) = 2
    /\ Len(result.detailed_df) = 1
    /\ \E i \in 1..2 : isna(df.rows[i].emission_factor) /\ LibraryMatches(df.rows[i]) = {}
                        /\ notna(to_numeric(df.rows[i].amount))

\* C9: the calculation fails, returning no result, on an absent or empty
\* input, on a missing required column (all missing columns are named) and
\* when no row survives; the checks are made in this order.
C9_ValidationErrors ==
    Calculated =>
        /\ (df.none \/ df.rows = << >> \/ df.cols = {}) =>
              result.status = "error" /\ result.error = "empty_input"
        /\ (~df.none /\ df.rows # << >> /\ df.cols # {} /\ ~(REQUIRED_COLUMNS \subseteq df.cols)) =>
              /\ result.status = "error" /\ result.error = "missing_columns"
              /\ result.missing = REQUIRED_COLUMNS \ df.cols
        /\ (~df.none /\ df.rows # << >> /\ REQUIRED_COLUMNS \subseteq df.cols /\ Survivors = {}) =>
              result.status = "error" /\ result.error = "no_valid_rows"
        /\ result.status = "error" =>
              result.detailed_df = << >> /\ isna(result.total_co2e) /\ result.summary_df = << >>
        /\ result.status \in {"ok", "error"}

C9_Witness ==
    /\ Calculated
    /\ result.error = "missing_columns"
    /\ result.missing = {"category", "unit", "emission_factor"}
    /\ Len(df.rows) = 2
    /\ \A i \in 1..2 : ~Survives(df.rows[i])

\* C10: every record that contributes to an output has a finite amount >= 0
\* and a finite effective emission_factor >= 0; a negative or non-numeric
\* one is dropped before aggregation.
C10_NonNegativeContributions ==
    CalculatedOk =>
        \A r \in Range(result.detailed_df) :
            /\ notna(r.amount) /\ r.amount.n >= 0
            /\ notna(r.emission_factor) /\ r.emission_factor.n >= 0

\* C3: a record in a non-canonical known unit u with no factor of its own,
\* resolved from a library factor f given per unit u, contributes
\* original_amount * f of CO2.
C3_UnitConsistentLookup ==
    CalculatedOk =>
        \A r \in Range(result.detailed_df) :
            \A f \in LibraryMatches(InputOf(r)) :
                (/\ HasMapping(strip_lower(InputOf(r).unit))
                 /\ UNIT_MAP[strip_lower(InputOf(r).unit)][2] # Int2Rat(1)
                 /\ strip_lower(f.unit) = strip_lower(InputOf(r).unit)
                 /\ isna(to_numeric(InputOf(r).emission_factor)))
                => r.co2e_co2 = RMul(to_numeric(InputOf(r).amount), f.emission_factor)

\* C7: every output record carries factor_source, factor_version and
\* factor_region; they are "user_input", "n/a", "n/a" whenever the record's
\* factor did not come from the library (also when a matching library entry
\* exists but the record supplied its own factor) and the library factor's
\* source, version and region only when the library factor filled the record.
C7_ProvenanceTags ==
    CalculatedOk =>
        \A r \in Range(result.detailed_df) :
            LET own == notna(to_numeric(InputOf(r).emission_factor))
            IN  /\ r.factor_source # NA /\ r.factor_version # NA /\ r.factor_region # NA
                /\ own => /\ r.factor_source = "user_input"
                          /\ r.factor_version = "n/a"
                          /\ r.factor_region = "n/a"
                /\ ~own => \E f \in LibraryMatches(InputOf(r)) :
                              /\ r.factor_source = (IF "source" \in factors_df.cols THEN f.source ELSE "unspecified")
                              /\ r.factor_version = (IF "version" \in factors_df.cols THEN f.version ELSE "v1")
                              /\ r.factor_region = (IF "region" \in factors_df.cols THEN f.region ELSE "global")

\* the aliases of the three scopes, as the contract lists them
ScopeAliases ==
    [c \in {"scope1", "scope2", "scope3"} |->
        CASE c = "scope1" -> {"scope 1", "s1", "scope_1", "scope1"}
          [] c = "scope2" -> {"scope 2", "s2", "scope_2", "scope2"}
          [] c = "scope3" -> {"scope 3", "s3", "scope_3", "scope3"}]

IsAlias(label) == \E c \in DOMAIN ScopeAliases : strip_lower(label) \in ScopeAliases[c]

ScopeOfAlias(label) == CHOOSE c \in DOMAIN ScopeAliases : strip_lower(label) \in ScopeAliases[c]

\* the grouping of the output under a given treatment of unlisted labels
GroupedBy(Unlisted(_)) ==
    LET group(label) == IF IsAlias(label) THEN ScopeOfAlias(label) ELSE Unlisted(label)
    IN  /\ \A r \in Range(result.detailed_df) : r.category = group(InputOf(r).category)
        /\ DOMAIN result.by_scope = {group(df.rows[i].category) : i \in Survivors}
        /\ {g.category : g \in Range(result.scope_df)} = DOMAIN result.by_scope

\* C11 (as amended): records are grouped by the category of the alias table,
\* the label being trimmed and lowercased before the lookup; a label that is
\* not in the table is not rejected and passes through trimmed and
\* lowercased, as its own key in by_scope and scope_df.
C11_ScopeAliases ==
    CalculatedOk => GroupedBy(LAMBDA label : strip_lower(label))

\* C11 (as claimed): the same, with an unlisted label passing through verbatim.
C11_AsClaimed ==
    CalculatedOk => GroupedBy(LAMBDA label : label)

C11_Witness ==
    /\ CalculatedOk
    /\ Len(df.rows) = 2
    /\ df.rows[1].category = " Scope 1 " /\ df.rows[2].category = " Fleet "
    /\ DOMAIN result.by_scope = {"scope1", "fleet"}

\* C12: the (category, activity) summary has one row per distinct pair of
\* the output records and no row has a larger total than a row before it;
\* the scope summary has one row per distinct normalised category, in
\* ascending order of the category name.
C12_SummaryOrder ==
    CalculatedOk =>
        LET summary == result.summary_df
            scopes == result.scope_df
            out == Range(result.detailed_df)
        IN  /\ {<<g.category, g.activity>> : g \in Range(summary)} =
                  {<<r.category, r.activity>> : r \in out}
            /\ Len(summary) = Cardinality({<<r.category, r.activity>> : r \in out})
            /\ \A p, q \in 1..Len(summary) :
                  p < q => ~RLess(summary[p].total_co2e, summary[q].total_co2e)
            /\ {g.category : g \in Range(scopes)} = {r.category : r \in out}
            /\ Len(scopes) = Cardinality({r.category : r \in out})
            /\ \A p, q \in 1..Len(scopes) :
                  p < q => StrRank(scopes[p].category) < StrRank(scopes[q].category)

\* two groups, the larger one coming from the later record
C12_Witness ==
    /\ CalculatedOk
    /\ Len(result.detailed_df) = 2
    /\ Len(result.summary_df) = 2 /\ Len(result.scope_df) = 2
    /\ RLess(result.detailed_df[1].total_co2e, result.detailed_df[2].total_co2e)
    /\ result.summary_df[1].activity = result.detailed_df[2].activity
    /\ StrRank(result.detailed_df[2].category) < StrRank(result.detailed_df[1].category)

(***************************************************************************)
(* Unit normalisation: record sets of up to MaxRows rows over the unit     *)
(* labels of every family of the table.                                    *)
(***************************************************************************)
UnitLabels == {"kg", "G", "ml", "Mile", "ton", "t", "bbl", "BBL"}

UnitValues ==
    {<<Int2Rat(10), Int2Rat(2)>>, <<Rat(3, 2), NaN>>, <<TextCell, Rat(1, 2)>>}

UnitRows ==
    {Row("scope1", "diesel", u, v[1], v[2], NaN, NaN) : u \in UnitLabels, v \in UnitValues}

UnitColumns ==
    {ActivityColumns, REQUIRED_COLUMNS \ {"emission_factor"}, {"category", "activity", "amount"}}

\* more rows of one unknown unit than a warning shows
Barrels == [i \in 1..(MaxShownRows + 1) |-> Row("scope1", "diesel", "bbl", Int2Rat(10), Int2Rat(2), NaN, NaN)]

InitUnits ==
    /\ \/ df \in {DataFrame(c, rows) : c \in UnitColumns, rows \in SeqsUpTo(UnitRows, MaxRows)}
       \/ \E rows \in SeqsUpTo(UnitRows, MaxRows) : df = DataFrame(ActivityColumns, Barrels \o rows)
    /\ factors_df = NoneDf
    /\ db_factors = << >>
    /\ region = NoRegion
    /\ year = NaN
    /\ args = NoArgs
    /\ op = "init"
    /\ result = NoResult
    /\ FreshStore

NextUnits == NormalizeUnits \/ NormalizeUnitsAgain

SpecUnits == InitUnits /\ [][NextUnits]_vars

Normalized == op = "normalize_units" /\ {"amount", "unit"} \subseteq df.cols /\ df.rows # << >>

\* C2: a row whose unit is in the conversion table with multiplier m gets the
\* canonical unit, amount*m and emission_factor/m, and the product
\* amount*emission_factor is the same before and after.
C2_ProductPreserved ==
    Normalized =>
        /\ Len(result.df.rows) = Len(df.rows)
        /\ \A i \in 1..Len(df.rows) :
              LET in == df.rows[i]
                  out == result.df.rows[i]
                  u == strip_lower(in.unit)
                  amount == to_numeric(in.amount)
                  ef == to_numeric(Cell(df, in, "emission_factor"))
              IN  HasMapping(u) =>
                     /\ out.unit = UNIT_MAP[u][1]
                     /\ notna(amount) => out.amount = RMul(amount, UNIT_MAP[u][2])
                     /\ notna(ef) => out.emission_factor = RDiv(ef, UNIT_MAP[u][2])
                     /\ (notna(amount) /\ notna(ef)) =>
                           RMul(out.amount, out.emission_factor) = RMul(amount, ef)

C2_Witness ==
    /\ Normalized
    /\ \E i \in 1..Len(df.rows) :
          /\ df.rows[i].unit = "ton"
          /\ df.rows[i].amount = Int2Rat(10) /\ df.rows[i].emission_factor = Int2Rat(2)
          /\ "emission_factor" \in df.cols
          /\ result.df.rows[i].unit = "kg"
          /\ result.df.rows[i].amount = Rat(90718474, 10000)
          /\ RMul(result.df.rows[i].amount, result.df.rows[i].emission_factor) = Int2Rat(20)

UnknownWarningsOf(warnings) == {w \in Range(warnings) : w.kind = "unknown"}

\* the warnings report exactly the unknown labels of the frame, each once,
\* with the first six row numbers and the count of the rest
UnknownsReported(frame, warnings) ==
    LET unknown == {i \in 1..Len(frame.rows) : ~HasMapping(strip_lower(frame.rows[i].unit))}
        numbers(label) == SelectIdx(frame.rows, LAMBDA i : i \in unknown /\ strip(frame.rows[i].unit) = label)
    IN  /\ {w.unit : w \in UnknownWarningsOf(warnings)} = {strip(frame.rows[i].unit) : i \in unknown}
        /\ Cardinality({p \in 1..Len(warnings) : warnings[p].kind = "unknown"}) =
              Cardinality({strip(frame.rows[i].unit) : i \in unknown})
        /\ \A w \in UnknownWarningsOf(warnings) :
              /\ Len(w.rows) <= 6
              /\ w.rows = [p \in 1..Len(w.rows) |-> numbers(w.unit)[p]]
              /\ Len(numbers(w.unit)) <= 6 => Len(w.rows) = Len(numbers(w.unit)) /\ w.more = 0
              /\ Len(numbers(w.unit)) > 6 => Len(w.rows) = 6 /\ w.more = Len(numbers(w.unit)) - 6

NormalizedAgain == op = "normalize_units_again"

\* C30: every unit a conversion produced is in the table with multiplier 1,
\* and normalising the output again changes no unit, amount or factor and
\* reports no conversion, while the unknown units are reported again.
C30_Idempotent ==
    NormalizedAgain =>
        /\ result.df = df
        /\ \A w \in Range(result.warnings) : w.kind # "converted"
        /\ {"amount", "unit"} \subseteq df.cols =>
              /\ \A r \in Range(df.rows) :
                    HasMapping(strip_lower(r.unit)) => UNIT_MAP[r.unit] = <<r.unit, Int2Rat(1)>>
              /\ UnknownsReported(df, result.warnings)

\* a converted row (10 ton = 9071.8474 kg) and an unknown unit, normalised twice
C30_Witness ==
    /\ NormalizedAgain
    /\ \E r \in Range(result.df.rows) : r.unit = "kg" /\ r.amount = Rat(90718474, 10000)
    /\ \E w \in Range(result.warnings) : w.kind = "unknown" /\ w.unit = "bbl"

(***************************************************************************)
(* Factor resolution: libraries of up to MaxFactors factors for one        *)
(* (activity, unit), either handed to the resolver as they are or held in  *)
(* the stored library and read through factors_for_calculation.            *)
(***************************************************************************)
ResolveFrames ==
    {DataFrame(REQUIRED_COLUMNS,
               <<Row("scope1", "Diesel ", "KG", Int2Rat(10), NaN, NaN, NaN),
                 Row("scope1", "diesel", "kg", Int2Rat(10), Int2Rat(2), NaN, NaN)>>),
     DataFrame(REQUIRED_COLUMNS,
               <<Row("scope2", "coal", "kg", Int2Rat(10), NaN, NaN, NaN),
                 Row("scope1", "diesel", "kg", Int2Rat(10), TextCell, NaN, NaN)>>)}

ResolveFactors ==
    {Factor(0, "Diesel ", "kg", IF isna(y) THEN Int2Rat(3) ELSE Rat(y.n, 1000), r, y, s, "v1", 1, 1) :
        r \in {"global", "US", "eu"}, y \in {NaN, Int2Rat(2023), Int2Rat(2024)},
        s \in {"ipcc", "custom"}}

StoredFactors ==
    {Factor(0, "diesel", "kg", IF isna(y) THEN Int2Rat(3) ELSE Int2Rat(4), r, y, s, "v1", t, 1) :
        r \in {"global", "us"}, y \in {NaN, Int2Rat(2024)},
        s \in {"IPCC 2006", "custom"}, t \in {1, 2}}
    \cup {Factor(0, "diesel", "kg", Int2Rat(3), "us", Int2Rat(2024), "custom", "v1", 3, 0),
          Factor(0, "coal", "kg", Int2Rat(5), "eu", Int2Rat(2023), "custom", "v1", 3, 1)}

\* rows of the stored library carry their row id
Stored(rows) == [i \in 1..Len(rows) |-> [rows[i] EXCEPT !.id = i]]

Regions == {NoRegion, " US ", "eu"}

Years == {NaN, Int2Rat(2024)}

InitResolve ==
    /\ df \in ResolveFrames
    /\ \/ /\ factors_df \in {Frame(c, rows) :
                                c \in {LibraryColumns, {"activity", "unit", "emission_factor"}},
                                rows \in SeqsUpTo(ResolveFactors, MaxFactors)}
          /\ db_factors = << >>
       \/ /\ factors_df = NoneDf
          /\ db_factors \in {Stored(rows) : rows \in SeqsUpTo(StoredFactors, MaxFactors)}
    /\ region \in Regions
    /\ year \in Years
    /\ args = NoArgs
    /\ op = "init"
    /\ result = NoResult
    /\ FreshStore

NextResolve == FactorsForCalculation \/ ApplyEmissionFactors

SpecResolve == InitResolve /\ [][NextResolve]_vars

Resolved == op = "apply_emission_factors"

Loaded == op = "factors_for_calculation"

\* C4: a record that carries a non-null numeric emission_factor keeps it
\* through resolution, for every library and every region/year context.
C4_SuppliedFactorKept ==
    Resolved =>
        /\ Len(result.rows) = Len(df.rows)
        /\ \A i \in 1..Len(df.rows) :
              notna(to_numeric(df.rows[i].emission_factor)) =>
                  result.rows[i].emission_factor = df.rows[i].emission_factor

C4_Witness ==
    /\ Resolved
    /\ df.rows[2].emission_factor = Int2Rat(2)
    /\ result.rows[2].emission_factor = Int2Rat(2)
    /\ result.rows[1].emission_factor = Int2Rat(3)
    /\ result.rows[2].factor_source = "custom"

\* the filter as the contract states it: the requested region or "global",
\* the requested year or no year
ContractKeeps(f) ==
    /\ region = NoRegion \/ lower(f.region) = lower(strip(region)) \/ lower(f.region) = "global"
    /\ isna(year) \/ isna(f.year) \/ f.year = year

\* the library rows that may fill record row under the contract
ContractCandidates(row) ==
    {f \in Range(FactorDefaults(factors_df)) :
        /\ f.activity = strip_lower(row.activity)
        /\ f.unit = strip_lower(row.unit)
        /\ ContractKeeps(f)}

\* the stored rows that qualify for (activity, unit) under the contract
StoredCandidates(activity, unit) ==
    {f \in Range(db_factors) :
        f.active = 1 /\ f.activity = activity /\ f.unit = unit /\ ContractKeeps(f)}

NeedsFactor(i) == isna(to_numeric(df.rows[i].emission_factor))

ContractOrderKey(f) ==
    <<fillna(f.year, Int2Rat(-1)),
      Int2Rat(IF contains_ipcc(lower(f.source)) THEN 0 ELSE 1),
      Int2Rat(f.updated_at)>>

ContractLast(f, candidates) ==
    /\ f \in candidates
    /\ \A c \in candidates : ~LexLess(ContractOrderKey(f), ContractOrderKey(c))

\* C6: for one (activity, unit) exactly one of the surviving candidates is
\* selected and it is the last under the order of the contract; this factor
\* fills a missing emission_factor.
C6_TieBreak ==
    /\ Resolved =>
          \A i \in 1..Len(df.rows) :
              (NeedsFactor(i) /\ ContractCandidates(df.rows[i]) # {}) =>
                  \E f \in ContractCandidates(df.rows[i]) :
                      /\ ContractLast(f, ContractCandidates(df.rows[i]))
                      /\ result.rows[i].emission_factor = f.emission_factor
                      /\ result.rows[i].factor_source = f.source
                      /\ result.rows[i].factor_region = f.region
                      /\ result.rows[i].factor_year = f.year
    /\ Loaded =>
          /\ \A f \in Range(factors_df.rows) :
                ContractLast(f, StoredCandidates(f.activity, f.unit))
          /\ \A i, j \in 1..Len(factors_df.rows) :
                (factors_df.rows[i].activity = factors_df.rows[j].activity
                 /\ factors_df.rows[i].unit = factors_df.rows[j].unit) => i = j

\* the stored-library half of C6 alone
StorageTieBreak ==
    Loaded =>
        \A f \in Range(factors_df.rows) : ContractLast(f, StoredCandidates(f.activity, f.unit))

(***************************************************************************)
(* Reduction scenarios: record sets of up to MaxRows rows under scope and  *)
(* activity reductions and an optional target.                             *)
(***************************************************************************)
ScenarioRows ==
    {Row("S1", "diesel", "l", Int2Rat(10), Int2Rat(2), NaN, NaN),
     Row(" Scope 1 ", "Diesel ", "l", Int2Rat(10), Int2Rat(2), NaN, NaN),
     Row("scope2", "diesel", "l", Int2Rat(10), NaN, NaN, NaN),
     Row("scope2", "coal", "kg", Int2Rat(10), Int2Rat(2), NaN, NaN),
     Row(" Fleet ", "coal", "kg", Int2Rat(-5), Int2Rat(2), NaN, NaN),
     Row("scope2", "coal", "kg", TextCell, Int2Rat(2), NaN, NaN),
     Row("S1", "coal", "kg", Int2Rat(0), Int2Rat(2), NaN, NaN)}

ScopeReductions ==
    {<< >>, << <<"Scope 1", Int2Rat(50)>> >>, << <<"scope2", Int2Rat(150)>> >>,
     << <<"scope3", Int2Rat(50)>> >>, << <<"scope1", Int2Rat(-10)>> >>,
     << <<"scope1", Int2Rat(50)>>, <<"scope2", Int2Rat(100)>> >>}

ActivityReductions ==
    {<< >>, << <<"Diesel", Int2Rat(20)>> >>, << <<"coal", Int2Rat(100)>> >>}

Targets == {NaN, Int2Rat(0), Int2Rat(15)}

InitScenario ==
    /\ \/ df = NoneDf
       \/ \E c \in {ActivityColumns, {"category", "activity"}}, n \in 0..MaxRows :
             \E rows \in [1..n -> ScenarioRows] : df = DataFrame(c, rows)
    /\ factors_df \in {NoneDf, Frame(LibraryColumns, CalcLibraryRows)}
    /\ db_factors = << >>
    /\ region = NoRegion
    /\ year = NaN
    /\ \E s \in ScopeReductions, a \in ActivityReductions, t \in Targets :
          args = [scope_reduction_pct |-> s, activity_reduction_pct |-> a, target_total |-> t]
    /\ op = "init"
    /\ result = NoResult
    /\ FreshStore

NextScenario == RunReductionScenario

SpecScenario == InitScenario /\ [][NextScenario]_vars

ScenarioRun == op = "run_reduction_scenario"

ScenarioOk == ScenarioRun /\ result.status = "ok"

\* a percentage limited to [lo, hi]
Clamped(pct, lo, hi) ==
    IF RLess(pct, Int2Rat(lo)) THEN Int2Rat(lo)
    ELSE IF RLess(Int2Rat(hi), pct) THEN Int2Rat(hi) ELSE pct

\* amount * (1 - pct/100) with pct clamped to [0, 100]
Reduced(amount, pct) ==
    RMul(amount, RSub(Int2Rat(1), RDiv(Clamped(pct, 0, 100), Int2Rat(100))))

\* the scope reductions whose key names the category of record i
ScopeMatches(i) ==
    {k \in 1..Len(args.scope_reduction_pct) :
        remove_spaces(lower(strip(args.scope_reduction_pct[k][1]))) =
            remove_spaces(lower(df.rows[i].category))}

\* the activity reductions whose key names the activity of record i
ActivityMatches(i) ==
    {k \in 1..Len(args.activity_reduction_pct) :
        strip_lower(args.activity_reduction_pct[k][1]) = strip_lower(df.rows[i].activity)}

\* C13: with every percentage clamped to [0,100], a record matched only by
\* a scope reduction s ends with amount*(1-s/100), one matched only by an
\* activity reduction a with amount*(1-a/100), one matched by both with
\* amount*(1-s/100)*(1-a/100), and one matched by neither keeps its amount.
C13_ReductionPasses ==
    ScenarioOk =>
        \A i \in 1..Len(df.rows) :
            LET amount == df.rows[i].amount
                after == result.scenario_df.rows[i].amount
                S == ScopeMatches(i)
                A == ActivityMatches(i)
            IN  /\ (S = {} /\ A = {}) => after = amount
                /\ \A k \in S : (S = {k} /\ A = {}) =>
                      after = Reduced(to_numeric(amount), args.scope_reduction_pct[k][2])
                /\ \A j \in A : (S = {} /\ A = {j}) =>
                      after = Reduced(to_numeric(amount), args.activity_reduction_pct[j][2])
                /\ \A k \in S, j \in A : (S = {k} /\ A = {j}) =>
                      after = Reduced(Reduced(to_numeric(amount), args.scope_reduction_pct[k][2]),
                                      args.activity_reduction_pct[j][2])

\* a record of 10 cut by 50 % for its scope and by 20 % for its activity
C13_Witness ==
    /\ ScenarioOk
    /\ \E i \in 1..Len(df.rows) :
          /\ ScopeMatches(i) # {} /\ ActivityMatches(i) # {}
          /\ df.rows[i].amount = Int2Rat(10)
          /\ result.scenario_df.rows[i].amount = Int2Rat(4)

\* every reduction supplied lies in (0,100], and there is at least one
ReductionsInRange ==
    LET all == args.scope_reduction_pct \o args.activity_reduction_pct
    IN  /\ all # << >>
        /\ \A k \in 1..Len(all) : RLess(Int2Rat(0), all[k][2]) /\ ~RLess(Int2Rat(100), all[k][2])

\* C14: for a positive baseline total and reductions in (0,100], the
\* scenario total is below the baseline total and the abatement is positive.
C14_ScenarioMonotone ==
    (ScenarioOk /\ RLess(Int2Rat(0), result.baseline_total) /\ ReductionsInRange) =>
        /\ RLess(result.scenario_total, result.baseline_total)
        /\ RLess(Int2Rat(0), result.abatement)

\* C15: abatement = baseline_total - scenario_total; abatement_pct =
\* abatement/baseline_total*100, and 0 when the baseline total is 0;
\* meets_target is true exactly when a target is supplied and
\* scenario_total <= target, false when supplied and scenario_total > target,
\* and None when no target is supplied.
C15_AbatementAndTarget ==
    ScenarioOk =>
        LET target == args.target_total
        IN  /\ result.baseline_total = result.baseline.total_co2e
            /\ result.scenario_total = result.scenario.total_co2e
            /\ result.abatement = RSub(result.baseline_total, result.scenario_total)
            /\ result.baseline_total.n # 0 =>
                  result.abatement_pct =
                      RMul(RDiv(result.abatement, result.baseline_total), Int2Rat(100))
            /\ result.baseline_total.n = 0 => result.abatement_pct = Int2Rat(0)
            /\ notna(result.abatement_pct)
            /\ isna(target) => result.meets_target = "None"
            /\ (notna(target) /\ ~RLess(target, result.scenario_total)) =>
                  result.meets_target = "True"
            /\ (notna(target) /\ RLess(target, result.scenario_total)) =>
                  result.meets_target = "False"

\* a zero baseline with a supplied target that is met
C15_Witness ==
    /\ ScenarioOk
    /\ result.baseline_total = Int2Rat(0)
    /\ result.abatement_pct = Int2Rat(0)
    /\ notna(args.target_total)
    /\ result.meets_target = "True"

(***************************************************************************)
(* Life-cycle assessment: the five-stage inventory, or a row that fails    *)
(* validation, or nothing, followed by up to MaxRows further rows.         *)
(***************************************************************************)
FiveStages ==
    <<LcaRow("Materials", Int2Rat(10), Int2Rat(1)),
      LcaRow("Transport", Int2Rat(10), Int2Rat(1)),
      LcaRow("Processing", Int2Rat(10), Int2Rat(1)),
      LcaRow("Distribution", Int2Rat(10), Int2Rat(1)),
      LcaRow("End-of-life", Int2Rat(10), Int2Rat(1))>>

LcaBases == {<< >>, FiveStages, <<LcaRow("packaging", TextCell, Int2Rat(1))>>}

LcaExtraRows ==
    {LcaRow("materials ", Int2Rat(5), Int2Rat(2)),
     LcaRow("packaging", Int2Rat(10), Int2Rat(3)),
     LcaRow("Use Phase", Int2Rat(20), Int2Rat(1)),
     LcaRow("Processing", Int2Rat(-5), Int2Rat(1)),
     LcaRow("Transport", Int2Rat(10), NaN),
     LcaRow("Distribution", Int2Rat(10), Int2Rat(-1))}

Boundaries == {"cradle-to-grave", "cradle-to-gate", " Gate-To-Gate ", "custom"}

AllocationMethods == {"none", "Economic"}

DefaultFactors == {Rat(1, 2), Rat(3, 2)}

StageAllocations ==
    {<< >>, << <<"MATERIALS", Rat(4, 5)>> >>,
     << <<"Packaging", Int2Rat(2)>>, <<"Processing", Int2Rat(-1)>> >>}

SensitivityPcts == {Int2Rat(20), Int2Rat(-5)}

InitLca ==
    /\ \/ df = NoneDf
       \/ df = DataFrame({"stage"}, <<LcaRow("Processing", Int2Rat(-5), Int2Rat(1))>>)
       \/ \E base \in LcaBases, n \in 0..MaxRows :
             \E rows \in [1..n -> LcaExtraRows] : df = DataFrame(LcaColumns, base \o rows)
    /\ factors_df = NoneDf
    /\ db_factors = << >>
    /\ region = NoRegion
    /\ year = NaN
    /\ \E b \in Boundaries, m \in AllocationMethods, d \in DefaultFactors,
          a \in StageAllocations, p \in SensitivityPcts :
          args = [boundary |-> b, allocation_method |-> m, default_allocation_factor |-> d,
                  stage_allocation |-> a, sensitivity_pct |-> p]
    /\ op = "init"
    /\ result = NoResult
    /\ FreshStore

NextLca == RunLca

SpecLca == InitLca /\ [][NextLca]_vars

LcaRun == op = "run_lca"

LcaOk == LcaRun /\ result.status = "ok"

\* the stage name of input row i as the summaries spell it
StageOf(i) == replace_of(title(strip(df.rows[i].stage)))

\* input row i passes validation
ValidRow(i) ==
    /\ notna(to_numeric(df.rows[i].amount)) /\ df.rows[i].amount.n >= 0
    /\ notna(to_numeric(df.rows[i].emission_factor))

\* the stage belongs to the boundary preset requested
InBoundary(stage) ==
    CASE strip_lower(args.boundary) = "cradle-to-grave" ->
             stage \in {"Materials", "Transport", "Processing", "Distribution", "End-Of-Life"}
      [] strip_lower(args.boundary) = "cradle-to-gate" ->
             stage \in {"Materials", "Transport", "Processing"}
      [] strip_lower(args.boundary) = "gate-to-gate" -> stage = "Processing"
      [] OTHER -> TRUE

ValidRows == {i \in 1..Len(df.rows) : ValidRow(i)}

\* the input rows that count: valid, and of a stage within the boundary
Counted == {i \in ValidRows : InBoundary(StageOf(i))}

\* sum of Val(i) over the input rows i in I
SumOver(I, Val(_)) ==
    LET idx == SelectIdx(df.rows, LAMBDA i : i \in I)
    IN  SumSeq([p \in 1..Len(idx) |-> Val(idx[p])])

Allocating == strip_lower(args.allocation_method) # "none"

IsFiveStages == df.cols = LcaColumns /\ Len(df.rows) = 5

\* C16: only the stages of the boundary preset are kept (all stages for an
\* unrecognised boundary): the summaries hold exactly the stages of the
\* counted rows, each stage's amount is that of its counted rows, without
\* allocation the total is the sum of amount*emission_factor over the counted
\* rows, and the five stages with amount 10 and factor 1 give 30 under
\* cradle-to-gate.
C16_BoundaryPreset ==
    LcaOk =>
        /\ {g.stage : g \in Range(result.summary_df)} = {StageOf(i) : i \in Counted}
        /\ {e[1] : e \in Range(result.by_stage)} = {StageOf(i) : i \in Counted}
        /\ \A g \in Range(result.summary_df) :
              g.total_amount =
                  SumOver({i \in Counted : StageOf(i) = g.stage}, LAMBDA i : df.rows[i].amount)
        /\ ~Allocating =>
              result.total_emissions =
                  SumOver(Counted, LAMBDA i : RMul(df.rows[i].amount, df.rows[i].emission_factor))
        /\ (IsFiveStages /\ ~Allocating /\ args.boundary = "cradle-to-gate") =>
              result.total_emissions = Int2Rat(30)

C16_Witness ==
    /\ LcaOk
    /\ IsFiveStages /\ ~Allocating /\ args.boundary = "cradle-to-gate"
    /\ result.total_emissions = Int2Rat(30)
    /\ Len(result.summary_df) = 3

\* the per-stage overrides whose key names the stage, case-insensitively
OverridesOf(stage) ==
    {k \in 1..Len(args.stage_allocation) :
        strip_lower(args.stage_allocation[k][1]) = lower(stage)}

\* the factor of a stage is the clamped override, or else the clamped default
IsFactorOf(factor, stage) ==
    IF OverridesOf(stage) = {}
    THEN factor = Clamped(args.default_allocation_factor, 0, 1)
    ELSE \E k \in OverridesOf(stage) : factor = Clamped(args.stage_allocation[k][2], 0, 1)

\* C17: each row's allocation factor is the default clamped to [0,1], or the
\* clamped override of its stage; a method other than "none" scales each
\* row's emissions by it and "none" records it without applying it; for
\* non-negative factors the allocated total never exceeds the unallocated one.
C17_Allocation ==
    LcaOk =>
        /\ \A g \in Range(result.summary_df) :
              LET mine == {i \in Counted : StageOf(i) = g.stage}
                  raw == SumOver(mine, LAMBDA i : RMul(df.rows[i].amount,
                                                       df.rows[i].emission_factor))
              IN  /\ IsFactorOf(g.avg_allocation_factor, g.stage)
                  /\ Allocating => g.total_emissions = RMul(raw, g.avg_allocation_factor)
                  /\ ~Allocating => g.total_emissions = raw
        /\ (\A i \in Counted : df.rows[i].emission_factor.n >= 0) =>
              ~RLess(run_lca(df, args.boundary, "none", args.default_allocation_factor,
                             args.stage_allocation, args.sensitivity_pct).total_emissions,
                     result.total_emissions)

\* the five stages under economic allocation: default 0.5, materials 0.8
C17_Witness ==
    /\ LcaOk
    /\ IsFiveStages /\ Allocating
    /\ args.default_allocation_factor = Rat(1, 2)
    /\ OverridesOf("Materials") # {}
    /\ Len(result.summary_df) = 5
    /\ result.summary_df[1].total_emissions = Int2Rat(8)
    /\ result.total_emissions = Int2Rat(28)

\* C18: with T the reported total and p the sensitivity percentage clamped
\* to >= 0, low_total = T*(1 - p/100) and high_total = T*(1 + p/100); a
\* negative percentage gives low_total = high_total = T.
C18_SensitivitySymmetry ==
    LcaOk =>
        LET T == result.total_emissions
            p == IF args.sensitivity_pct.n < 0 THEN Int2Rat(0) ELSE args.sensitivity_pct
        IN  /\ result.sensitivity.pct = p
            /\ result.sensitivity.low_total = RMul(T, RSub(Int2Rat(1), RDiv(p, Int2Rat(100))))
            /\ result.sensitivity.high_total = RMul(T, RAdd(Int2Rat(1), RDiv(p, Int2Rat(100))))
            /\ args.sensitivity_pct.n < 0 =>
                  result.sensitivity.low_total = T /\ result.sensitivity.high_total = T

\* T = 50 and p = 20 give 40 and 60
C18_Witness ==
    /\ LcaOk
    /\ result.total_emissions = Int2Rat(50)
    /\ args.sensitivity_pct = Int2Rat(20)
    /\ result.sensitivity.low_total = Int2Rat(40)
    /\ result.sensitivity.high_total = Int2Rat(60)

CanonicalRank(stage) ==
    CASE stage = "Materials" -> 1
      [] stage = "Transport" -> 2
      [] stage = "Processing" -> 3
      [] stage = "Distribution" -> 4
      [] stage = "End-Of-Life" -> 5
      [] OTHER -> 6

\* the first row of I that names the stage
FirstSeen(I, stage) == CHOOSE i \in I : StageOf(i) = stage /\ \A j \in I : StageOf(j) = stage => i <= j

\* a sequence of stages: canonical ones first in the fixed order, then the
\* custom ones in the order of their first occurrence among the rows I
StageOrderHolds(stages, I) ==
    /\ \A p, q \in 1..Len(stages) : p < q =>
          /\ stages[p] # stages[q]
          /\ CanonicalRank(stages[p]) <= CanonicalRank(stages[q])
          /\ (CanonicalRank(stages[p]) = 6 /\ CanonicalRank(stages[q]) = 6) =>
                FirstSeen(I, stages[p]) < FirstSeen(I, stages[q])

\* the hotspot list: at most three stages, the largest totals, descending
HotspotsHold ==
    LET hot == result.hotspot_categories
        summary == result.summary_df
    IN  /\ Len(hot) = (IF Len(summary) < 3 THEN Len(summary) ELSE 3)
        /\ \A p \in 1..Len(hot) :
              \E g \in Range(summary) :
                  g.stage = hot[p].stage /\ g.total_emissions = hot[p].total_emissions
        /\ \A p, q \in 1..Len(hot) :
              p < q => hot[p].stage # hot[q].stage
                       /\ ~RLess(hot[p].total_emissions, hot[q].total_emissions)
        /\ \A g \in Range(summary) :
              (\A p \in 1..Len(hot) : hot[p].stage # g.stage) =>
                  \A p \in 1..Len(hot) : ~RLess(hot[p].total_emissions, g.total_emissions)

SummariesOrdered(I) ==
    /\ StageOrderHolds([p \in 1..Len(result.summary_df) |-> result.summary_df[p].stage], I)
    /\ StageOrderHolds([p \in 1..Len(result.by_stage) |-> result.by_stage[p][1]], I)
    /\ StageOrderHolds([p \in 1..Len(result.sankey_df) |-> result.sankey_df[p].target], I)
    /\ HotspotsHold

\* C19 (as amended): in summary_df, by_stage and the edge list the canonical
\* stages present come first in the fixed order, then the custom stages in
\* the order in which they first occur among the input rows that pass
\* validation; each stage appears once; the hotspot list holds at most the 3
\* stages with the largest totals, in descending order.
C19_StageOrder ==
    LcaOk => SummariesOrdered(Counted)

\* C19 (as claimed): the same, the custom stages being in the order in which
\* they first occur in the input.
C19_AsClaimed ==
    LcaOk => SummariesOrdered(1..Len(df.rows))

\* two custom stages after a canonical one, and more than three stages
C19_Witness ==
    /\ LcaOk
    /\ Len(result.summary_df) = 7
    /\ result.summary_df[6].stage = "Use Phase" /\ result.summary_df[7].stage = "Packaging"
    /\ Len(result.hotspot_categories) = 3
    /\ result.hotspot_categories[1].stage = "Packaging"

\* C20: the run fails, with no result, when a required column is missing
\* (first check; the missing columns are named), when no row passes
\* validation, and when no row is within the boundary.
C20_LcaValidationErrors ==
    (LcaRun /\ ~df.none) =>
        /\ ~(LcaColumns \subseteq df.cols) =>
              /\ result.status = "error" /\ result.error = "missing_columns"
              /\ result.missing = LcaColumns \ df.cols
        /\ (LcaColumns \subseteq df.cols /\ ValidRows = {}) =>
              result.status = "error" /\ result.error = "no_valid_rows"
        /\ (LcaColumns \subseteq df.cols /\ ValidRows # {} /\ Counted = {}) =>
              result.status = "error" /\ result.error = "boundary_empty"
        /\ (LcaColumns \subseteq df.cols /\ Counted # {}) => result.status = "ok"
        /\ result.status = "error" =>
              /\ isna(result.total_emissions) /\ result.summary_df = << >>
              /\ result.by_stage = << >>

\* only a negative amount and a missing factor: no row passes validation
C20_Witness ==
    /\ LcaRun
    /\ df.cols = LcaColumns
    /\ Len(df.rows) = 2
    /\ df.rows[1].amount = Int2Rat(-5) /\ isna(df.rows[2].emission_factor)
    /\ result.error = "no_valid_rows"

(***************************************************************************)
(* Conservation of the totals of a calculation.                            *)
(***************************************************************************)
\* the sum of the total_co2e column of a table
TotalOf(table) == SumSeq([p \in 1..Len(table) |-> table[p].total_co2e])

\* the rows of a summary that a record is counted in
SummaryRowsOf(r) ==
    {p \in 1..Len(result.summary_df) :
        /\ result.summary_df[p].category = r.category
        /\ result.summary_df[p].activity = r.activity}

ScopeRowsOf(r) == {p \in 1..Len(result.scope_df) : result.scope_df[p].category = r.category}

AliasMatches(i) ==
    {k \in 1..Len(args.scope_reduction_pct) :
        _normalize_scope(args.scope_reduction_pct[k][1]) = _normalize_scope(df.rows[i].category)}

\* C27: a scope reduction is applied to every record whose category is an
\* alias of the scope the key names, by the alias table the grouping uses: a
\* record whose category groups under the scope of exactly one reduction key,
\* and that no activity reduction names, ends with amount*(1-s/100).
C27_AliasReduction ==
    ScenarioOk =>
        \A i \in 1..Len(df.rows) :
            \A k \in AliasMatches(i) :
                (AliasMatches(i) = {k} /\ ActivityMatches(i) = {}) =>
                    result.scenario_df.rows[i].amount =
                        Reduced(to_numeric(df.rows[i].amount), args.scope_reduction_pct[k][2])

(***************************************************************************)
(* The stored-library read against the resolver.                           *)
(***************************************************************************)
\* the active rows of the stored library, as a library frame
ActiveLibrary ==
    Frame(FACTOR_COLUMNS, FilterIdx(db_factors, LAMBDA i : db_factors[i].active = 1))

\* the (id, factor) pairs of a lookup table
Selection(rows) == {<<f.id, f.emission_factor>> : f \in Range(rows)}

\* C25: for the same active factors and the same region/year context the
\* stored-library read and the resolver select the same factor for every
\* (activity, unit): the resolver keeps every row of the storage output, and
\* from the raw active library it selects the rows the storage output holds.
C25_SameSelection ==
    Loaded =>
        /\ Selection(ResolverCandidates(factors_df, region, year)) = Selection(factors_df.rows)
        /\ Selection(ResolverCandidates(ActiveLibrary, region, year)) = Selection(factors_df.rows)

\* the first half alone: the resolver changes no selection of the storage output
StorageOutputKept ==
    Loaded => Selection(ResolverCandidates(factors_df, region, year)) = Selection(factors_df.rows)

(***************************************************************************)
(* The engine as a whole: the five operations called in any order on one   *)
(* record set, one library and one set of keyword arguments.               *)
(***************************************************************************)
\* a record that is both an activity record and a lifecycle inventory row
EngineRow(category, activity, unit, stage, amount, emission_factor) ==
    Row(category, activity, unit, amount, emission_factor, NaN, NaN)
        @@ LcaRow(stage, amount, emission_factor)

EngineRows ==
    {EngineRow("S1", "Diesel ", "G", "materials ", Int2Rat(10), Int2Rat(2)),
     EngineRow(" Scope 1 ", "diesel", "l", "Transport", Int2Rat(10), NaN),
     EngineRow("scope2", "coal", "kg", "packaging", TextCell, Int2Rat(2))}

InitEngine ==
    /\ \E n \in 1..MaxRows :
          \E rows \in [1..n -> EngineRows] : df = DataFrame(ActivityColumns \cup {"stage"}, rows)
    /\ factors_df \in {Frame(LibraryColumns, << >>), Frame(LibraryColumns, CalcLibraryRows)}
    /\ db_factors = << >>
    /\ region = NoRegion
    /\ year = NaN
    /\ args = [scope_reduction_pct |-> << <<"Scope 1", Int2Rat(50)>> >>,
               activity_reduction_pct |-> << <<"coal", Int2Rat(100)>> >>,
               target_total |-> Int2Rat(15),
               boundary |-> "cradle-to-grave", allocation_method |-> "Economic",
               default_allocation_factor |-> Rat(1, 2), stage_allocation |-> << >>,
               sensitivity_pct |-> Int2Rat(20)]
    /\ op = "init"
    /\ result = NoResult
    /\ FreshStore

NextEngine ==
    \/ CalculateEmissions
    \/ NormalizeUnits
    \/ ApplyEmissionFactors
    \/ RunReductionScenario
    \/ RunLca

SpecEngine == InitEngine /\ [][NextEngine]_vars

\* an engine call leaves the record set, the library and the store as they were
InputsKept ==
    op' \in EngineOps =>
        /\ df' = df /\ factors_df' = factors_df
        /\ db_factors' = db_factors /\ analysis_runs' = analysis_runs

\* the calls of one operation all returned the same result
EqualResults == \A a, b \in seen : a.call = b.call => a.returned = b.returned

\* the baseline of a scenario is the calculation on the records as given
BaselineUnreduced ==
    (op = "run_reduction_scenario" /\ result.status = "ok") =>
        result.baseline = calculate_emissions(df, factors_df, NoRegion, NaN)

Absent == "<absent>"

NoId == 0

\* dict.get(key, default)
Get(factor, key, default) == IF factor[key] = Absent THEN default ELSE factor[key]

\* storage._normalize_scope
storage_normalize_scope(scope_value) ==
    LET raw == strip_lower(scope_value)
    IN  IF raw \in {"", "nan"} THEN NA
        ELSE IF raw \in DOMAIN SCOPE_MAP THEN SCOPE_MAP[raw] ELSE raw

\* str.replace(" ", "_")
underscore_spaces(s) == IF s = "mobile combustion" THEN "mobile_combustion" ELSE s

_normalize_scope_category(scope_category) ==
    LET raw == underscore_spaces(strip_lower(scope_category))
    IN  IF raw \in {"", "nan"} THEN NA ELSE raw

_as_optional_text(value, lowercase) ==
    IF value = NA THEN NA
    ELSE LET text == strip(value)
         IN  IF text = "" \/ lower(text) = "nan" THEN NA
             ELSE IF lowercase THEN lower(text) ELSE text

_as_int_or_none(value) == IF isna(value) THEN NaN ELSE value

\* the values _upsert_factor_with_conn binds to its statements
NormalizedFactor(factor) ==
    LET reg == _as_optional_text(Get(factor, "region", "global"), TRUE)
        source == _as_optional_text(Get(factor, "source", "unspecified"), FALSE)
        version == _as_optional_text(Get(factor, "version", "v1"), FALSE)
    IN  [activity |-> strip_lower(Get(factor, "activity", "")),
         unit |-> strip_lower(Get(factor, "unit", "")),
         emission_factor |-> factor.emission_factor,
         scope |-> storage_normalize_scope(Get(factor, "scope", "")),
         scope_category |-> _normalize_scope_category(Get(factor, "scope_category", "")),
         region |-> IF reg = NA THEN "global" ELSE reg,
         year |-> _as_int_or_none(factor.year),
         source |-> IF source = NA THEN "unspecified" ELSE source,
         version |-> IF version = NA THEN "v1" ELSE version,
         active |-> factor.active]

\* COALESCE(column, fallback)
Coalesce(value, fallback) == IF value = NA THEN fallback ELSE value

CoalesceYear(value) == IF isna(value) THEN Int2Rat(-1) ELSE value

\* the natural-key SELECT comparing the columns as they are: a NULL column
\* equals nothing
FindByNaturalKey_NoCoalesce(table, n) ==
    {table[i].id : i \in {j \in 1..Len(table) :
        /\ table[j].activity = n.activity
        /\ table[j].unit = n.unit
        /\ table[j].scope # NA /\ table[j].scope = n.scope
        /\ table[j].region = n.region
        /\ notna(table[j].year) /\ table[j].year = n.year
        /\ table[j].source = n.source
        /\ table[j].version = n.version}}

\* the ids the natural-key SELECT of _upsert_factor_with_conn matches
FindByNaturalKey(table, n) ==
    {table[i].id : i \in {j \in 1..Len(table) :
        /\ table[j].activity = n.activity
        /\ table[j].unit = n.unit
        /\ Coalesce(table[j].scope, "") = Coalesce(n.scope, "")
        /\ Coalesce(table[j].region, "global") = n.region
        /\ CoalesceYear(table[j].year) = CoalesceYear(n.year)
        /\ Coalesce(table[j].source, "") = n.source
        /\ Coalesce(table[j].version, "") = n.version}}

\* the rows LIMIT 1 may hand back: the SELECT names no order
Hits(table, factor) ==
    IF factor.id # NoId THEN {factor.id}
    ELSE IF FindByNaturalKey(table, NormalizedFactor(factor)) = {} THEN {NoId}
    ELSE FindByNaturalKey(table, NormalizedFactor(factor))

StoredRow(id, n, created_at, updated_at) ==
    Factor(id, n.activity, n.unit, n.emission_factor, n.region, n.year, n.source,
           n.version, updated_at, n.active)
    @@ [scope |-> n.scope, scope_category |-> n.scope_category, created_at |-> created_at]

Store(table, seq, id, error) == [table |-> table, seq |-> seq, id |-> id, error |-> error]

\* _upsert_factor_with_conn on the library store, record_id being the row
\* the factor names or the SELECT found (NoId: INSERT)
_upsert_factor_with_conn(store, factor, now, record_id) ==
    LET n == NormalizedFactor(factor)
    IN  IF n.activity = "" \/ n.unit = ""
        THEN Store(store.table, store.seq, NoId, "activity and unit are required for factor records.")
        ELSE IF record_id = NoId
        THEN Store(Append(store.table, StoredRow(store.seq + 1, n, now, now)),
                   store.seq + 1, store.seq + 1, "")
        ELSE Store([i \in 1..Len(store.table) |->
                        IF store.table[i].id = record_id
                        THEN StoredRow(record_id, n, store.table[i].created_at, now)
                        ELSE store.table[i]],
                   store.seq, record_id, "")

\* the seed file of init_database: two spellings of one factor
SeedRows ==
    <<[activity |-> "diesel", unit |-> "kg", emission_factor |-> Int2Rat(3), scope |-> "scope1",
       scope_category |-> Absent, region |-> Absent, year |-> NaN, source |-> Absent,
       version |-> Absent, active |-> 1, id |-> NoId],
      [activity |-> "Diesel ", unit |-> "KG", emission_factor |-> Int2Rat(4), scope |-> "S1",
       scope_category |-> Absent, region |-> Absent, year |-> NaN, source |-> Absent,
       version |-> Absent, active |-> 1, id |-> NoId]>>

\* a row of the seed file as init_database hands it to the upsert
SeedFactor(row) == [row EXCEPT !.source = Get(row, "source", "seed_csv")]

\* list_factors: ORDER BY activity, unit, year
list_factors(table, active_only) ==
    LET selected == FilterIdx(table, LAMBDA i : active_only => table[i].active = 1)
    IN  Frame(FACTOR_COLUMNS,
              StableSort(selected,
                         [i \in 1..Len(selected) |->
                            <<Int2Rat(StrRank(selected[i].activity)),
                              Int2Rat(StrRank(selected[i].unit)),
                              fillna(selected[i].year, Int2Rat(-1))>>]))

delete_factor(table, factor_id) == FilterIdx(table, LAMBDA i : table[i].id # factor_id)

(***************************************************************************)
(* The factor library under its operations.                                *)
(***************************************************************************)
Timestamps == {1}

FactorDict(activity, emission_factor, yr, source, active, id) ==
    [activity |-> activity, unit |-> "KG", emission_factor |-> emission_factor, scope |-> "S1",
     scope_category |-> Absent, region |-> Absent, year |-> yr, source |-> source,
     version |-> Absent, active |-> active, id |-> id]

\* the factors handed to upsert_factor; the last one names no activity
FactorDicts ==
    {FactorDict("Diesel ", Int2Rat(e), y, s, act, id) :
        e \in {3, 4}, y \in Years, s \in {Absent, "seed_csv"}, act \in {0, 1}, id \in {NoId, 1}}
    \cup {FactorDict(Absent, Int2Rat(3), NaN, Absent, 1, NoId)}

LibraryStates == {"init"} \cup LibraryOps

Written(out) ==
    /\ out.seq <= MaxFactors
    /\ db_factors' = out.table
    /\ sqlite_sequence' = [sqlite_sequence EXCEPT !.factor_library = out.seq]

UpsertFactor ==
    /\ op \in LibraryStates
    /\ \E factor \in FactorDicts, now \in Timestamps :
        \E record_id \in Hits(db_factors, factor) :
            LET out == _upsert_factor_with_conn(Store(db_factors, sqlite_sequence.factor_library,
                                                      NoId, ""), factor, now, record_id)
            IN  /\ Written(out)
                /\ args' = [factor |-> factor, now |-> now]
                /\ result' = [status |-> IF out.error = "" THEN "ok" ELSE "error",
                              error |-> out.error, id |-> out.id]
    /\ op' = "upsert_factor"
    /\ UNCHANGED <<df, factors_df, analysis_runs, region, year, seen>>

InitDatabase ==
    /\ op \in LibraryStates
    /\ \E now \in Timestamps :
        LET s0 == Store(db_factors, sqlite_sequence.factor_library, NoId, "")
        IN  \E h1 \in Hits(s0.table, SeedFactor(SeedRows[1])) :
                LET s1 == _upsert_factor_with_conn(s0, SeedFactor(SeedRows[1]), now, h1)
                IN  \E h2 \in Hits(s1.table, SeedFactor(SeedRows[2])) :
                        /\ Written(_upsert_factor_with_conn(s1, SeedFactor(SeedRows[2]), now, h2))
                        /\ args' = [now |-> now]
    /\ result' = NoResult
    /\ op' = "init_database"
    /\ UNCHANGED <<df, factors_df, analysis_runs, region, year, seen>>

DeleteFactor ==
    /\ op \in LibraryStates
    /\ \E factor_id \in 1..MaxFactors :
        /\ db_factors' = delete_factor(db_factors, factor_id)
        /\ args' = [factor_id |-> factor_id]
    /\ result' = NoResult
    /\ op' = "delete_factor"
    /\ UNCHANGED <<df, factors_df, sqlite_sequence, analysis_runs, region, year, seen>>

ListFactors ==
    /\ op \in LibraryStates \ {"list_factors"}
    /\ \E active_only \in BOOLEAN :
        /\ result' = list_factors(db_factors, active_only)
        /\ args' = [active_only |-> active_only]
    /\ op' = "list_factors"
    /\ UNCHANGED <<df, factors_df, db_factors, sqlite_sequence, analysis_runs, region, year, seen>>

InitLibrary ==
    /\ df = NoneDf
    /\ factors_df = NoneDf
    /\ db_factors = << >>
    /\ region = NoRegion
    /\ year = Int2Rat(2024)
    /\ args = NoArgs
    /\ op = "init"
    /\ result = NoResult
    /\ FreshStore

NextLibrary ==
    InitDatabase \/ UpsertFactor \/ DeleteFactor \/ ListFactors \/ FactorsForCalculation

SpecLibrary == InitLibrary /\ [][NextLibrary]_vars

NaturalKey(n) == <<n.activity, n.unit, n.scope, n.region, n.year, n.source, n.version>>

Ids(table) == {table[i].id : i \in 1..Len(table)}

RowOf(table, id) == CHOOSE r \in Range(table) : r.id = id

NoDuplicateKeys(table) ==
    \A i, j \in 1..Len(table) : NaturalKey(table[i]) = NaturalKey(table[j]) => i = j

\* the rows of the table carrying the natural key of the factor
SameKey(table, factor) ==
    {r \in Range(table) : NaturalKey(r) = NaturalKey(NormalizedFactor(factor))}

\* an upsert without id into a library that holds each key once: the row of
\* the key is updated under its id, or a row with a fresh id is added
UpsertByKey ==
    (/\ op' = "upsert_factor"
     /\ args'.factor.id = NoId
     /\ result'.status = "ok"
     /\ NoDuplicateKeys(db_factors))
    => /\ NoDuplicateKeys(db_factors')
       /\ \A r \in Range(db_factors) : r.id # result'.id => r \in Range(db_factors')
       /\ IF SameKey(db_factors, args'.factor) # {}
          THEN /\ Ids(db_factors') = Ids(db_factors)
               /\ \E r \in SameKey(db_factors, args'.factor) : r.id = result'.id
          ELSE /\ Ids(db_factors') = Ids(db_factors) \cup {result'.id}
               /\ result'.id > sqlite_sequence.factor_library
               /\ result'.id \notin Ids(db_factors)
       /\ NaturalKey(RowOf(db_factors', result'.id)) = NaturalKey(NormalizedFactor(args'.factor))
       /\ RowOf(db_factors', result'.id).emission_factor = args'.factor.emission_factor
       /\ RowOf(db_factors', result'.id).active = args'.factor.active

\* seeding a library that holds each key once: every seed key is there once
\* afterwards, and no row is added for a key that was there
SeedByKey ==
    (op' = "init_database" /\ NoDuplicateKeys(db_factors))
    => /\ NoDuplicateKeys(db_factors')
       /\ \A i \in 1..Len(SeedRows) :
            Cardinality(SameKey(db_factors', SeedFactor(SeedRows[i]))) = 1
       /\ \A r \in Range(db_factors') :
            r.id \notin Ids(db_factors)
            => /\ \E i \in 1..Len(SeedRows) : r \in SameKey(db_factors', SeedFactor(SeedRows[i]))
               /\ \A i \in 1..Len(SeedRows) : SameKey(db_factors, SeedFactor(SeedRows[i])) = {}
       /\ Ids(db_factors) \subseteq Ids(db_factors')

ReadsOnlyActive ==
    op = "factors_for_calculation"
    => \A f \in Range(factors_df.rows) : f \in Range(db_factors) /\ f.active = 1

\* list_factors lists every row of the library, the inactive ones included
\* unless active_only asks otherwise
ListsLibrary ==
    op = "list_factors"
    => Range(result.rows) = {r \in Range(db_factors) : args.active_only => r.active = 1}

\* delete_factor removes the row of the id and nothing else
DeleteStep ==
    op' = "delete_factor"
    => /\ Ids(db_factors') = Ids(db_factors) \ {args'.factor_id}
       /\ Range(db_factors') \subseteq Range(db_factors)

\* an id that left the library never comes back, and only delete_factor
\* takes a row out
GoneForGood ==
    /\ \A id \in 1..sqlite_sequence.factor_library : id \notin Ids(db_factors) => id \notin Ids(db_factors')
    /\ Ids(db_factors') \ Ids(db_factors) \subseteq (sqlite_sequence.factor_library + 1)..sqlite_sequence'.factor_library
    /\ op' # "delete_factor" => Ids(db_factors) \subseteq Ids(db_factors')

\* an upsert with active = 0 keeps its row in the library, inactive
Deactivated ==
    (/\ op' = "upsert_factor"
     /\ result'.status = "ok"
     /\ args'.factor.active = 0
     /\ \/ args'.factor.id = NoId
        \/ args'.factor.id \in Ids(db_factors))
    => /\ result'.id \in Ids(db_factors')
       /\ RowOf(db_factors', result'.id).active = 0

\* the active flag of a row changes only when the row is written: by an
\* upsert that reaches it, with the flag of that upsert, or by the seeding
ActiveChanges ==
    \A r \in Range(db_factors) :
        (r.id \in Ids(db_factors') /\ RowOf(db_factors', r.id).active # r.active)
        => \/ /\ op' = "upsert_factor"
              /\ result'.id = r.id
              /\ RowOf(db_factors', r.id).active = args'.factor.active
           \/ op' = "init_database"

\* C28: factors_for_calculation returns only rows that are in the library
\* with active = 1; a row deactivated by an upsert stays in the library and
\* is listed, stays inactive until an upsert writes it as active, and a row
\* removed by delete_factor never comes back.
C28_ActiveOnly ==
    [](ReadsOnlyActive /\ ListsLibrary)
    /\ [][DeleteStep /\ GoneForGood /\ Deactivated /\ ActiveChanges]_vars

\* two factors were stored; one was deleted, the other deactivated: nothing
\* is handed out for calculation
C28_Witness ==
    /\ op = "factors_for_calculation"
    /\ sqlite_sequence.factor_library = 2
    /\ Len(db_factors) = 1
    /\ db_factors[1].active = 0
    /\ factors_df.rows = << >>

(***************************************************************************)
(* Storage: the run history.  A Python value is a record of its type t,    *)
(* its text s (of a string, a number, a dict key, or str() of an object)   *)
(* and its items (of a list, a tuple, a dict; the value under a dict key). *)
(* A JSON document is a record of the same shape with the JSON types.      *)
(***************************************************************************)
PyStr(s) == [t |-> "str", s |-> s, items |-> << >>]

PyNum(s) == [t |-> "num", s |-> s, items |-> << >>]

PyNone == [t |-> "None", s |-> "", items |-> << >>]

PyList(items) == [t |-> "list", s |-> "", items |-> items]

PyTuple(items) == [t |-> "tuple", s |-> "", items |-> items]

PyDict(items) == [t |-> "dict", s |-> "", items |-> items]

\* key: value inside a dict
PyItem(key, value) == [t |-> "item", s |-> key, items |-> <<value>>]

\* a datetime.date, whose str() is s
PyDate(s) == [t |-> "date", s |-> s, items |-> << >>]

\* json.dumps(value, default=str)
RECURSIVE json_dumps(_)
json_dumps(value) ==
    LET items == [i \in 1..Len(value.items) |-> json_dumps(value.items[i])]
    IN  CASE value.t = "str" -> [t |-> "string", s |-> value.s, items |-> << >>]
          [] value.t = "num" -> [t |-> "number", s |-> value.s, items |-> << >>]
          [] value.t = "None" -> [t |-> "null", s |-> "", items |-> << >>]
          [] value.t \in {"list", "tuple"} -> [t |-> "array", s |-> "", items |-> items]
          [] value.t = "dict" -> [t |-> "object", s |-> "", items |-> items]
          [] value.t = "item" -> [t |-> "member", s |-> value.s, items |-> items]
          [] OTHER -> [t |-> "string", s |-> value.s, items |-> << >>]

\* json.loads(text)
RECURSIVE json_loads(_)
json_loads(doc) ==
    LET items == [i \in 1..Len(doc.items) |-> json_loads(doc.items[i])]
    IN  CASE doc.t = "string" -> PyStr(doc.s)
          [] doc.t = "number" -> PyNum(doc.s)
          [] doc.t = "null" -> PyNone
          [] doc.t = "array" -> PyList(items)
          [] doc.t = "object" -> PyDict(items)
          [] doc.t = "member" -> PyItem(doc.s, items[1])

\* metadata or {}
MetadataOrEmpty(metadata) ==
    IF metadata = PyNone \/ metadata = PyDict(<< >>) THEN PyDict(<< >>) ELSE metadata

\* run_name.strip() or "Unnamed Run"
TextOr(text, default) == IF strip(text) = "" THEN default ELSE strip(text)

RunStore(table, seq, id) == [table |-> table, seq |-> seq, id |-> id]

\* a save_run that keeps one run per name: a second run of a name replaces
\* the first under its id
save_run_ReplaceByName(table, seq, run_name, run_type, payload, metadata, total_co2e, now) ==
    LET row == [id |-> seq + 1, run_name |-> TextOr(run_name, "Unnamed Run"),
                run_type |-> TextOr(run_type, "general"), run_timestamp |-> now,
                total_co2e |-> total_co2e, payload_json |-> json_dumps(payload),
                metadata_json |-> json_dumps(MetadataOrEmpty(metadata))]
        same == {i \in 1..Len(table) : table[i].run_name = row.run_name}
    IN  IF same = {} THEN RunStore(Append(table, row), seq + 1, seq + 1)
        ELSE RunStore([i \in 1..Len(table) |->
                          IF i \in same THEN [row EXCEPT !.id = table[i].id] ELSE table[i]],
                      seq, table[CHOOSE i \in same : TRUE].id)

\* save_run: INSERT INTO analysis_runs under the next AUTOINCREMENT id
save_run(table, seq, run_name, run_type, payload, metadata, total_co2e, now) ==
    RunStore(Append(table, [id |-> seq + 1, run_name |-> TextOr(run_name, "Unnamed Run"),
                            run_type |-> TextOr(run_type, "general"), run_timestamp |-> now,
                            total_co2e |-> total_co2e, payload_json |-> json_dumps(payload),
                            metadata_json |-> json_dumps(MetadataOrEmpty(metadata))]),
             seq + 1, seq + 1)

RUN_COLUMNS == {"id", "run_name", "run_type", "run_timestamp", "total_co2e"}

\* list_runs: ORDER BY id DESC LIMIT limit
list_runs(table, limit) ==
    LET sorted == StableSort(table, [i \in 1..Len(table) |-> <<Int2Rat(0 - table[i].id)>>])
        shown == IF Len(sorted) <= limit THEN sorted ELSE SubSeq(sorted, 1, limit)
    IN  Frame(RUN_COLUMNS,
              [i \in 1..Len(shown) |->
                  [id |-> shown[i].id, run_name |-> shown[i].run_name,
                   run_type |-> shown[i].run_type, run_timestamp |-> shown[i].run_timestamp,
                   total_co2e |-> shown[i].total_co2e]])

NoRun ==
    [status |-> "error", error |-> "Run id not found.", id |-> 0, run_name |-> "",
     run_type |-> "", run_timestamp |-> 0, total_co2e |-> NaN, payload |-> PyNone,
     metadata |-> PyNone]

\* load_run: the row of the id, its JSON columns parsed
load_run(table, run_id) ==
    IF \A i \in 1..Len(table) : table[i].id # run_id THEN NoRun
    ELSE LET row == table[CHOOSE i \in 1..Len(table) : table[i].id = run_id]
         IN  [status |-> "ok", error |-> "", id |-> row.id, run_name |-> row.run_name,
              run_type |-> row.run_type, run_timestamp |-> row.run_timestamp,
              total_co2e |-> row.total_co2e, payload |-> json_loads(row.payload_json),
              metadata |-> json_loads(row.metadata_json)]

\* float(run.get("total_co2e") or 0.0)
TotalOrZero(run) == fillna(run.total_co2e, Int2Rat(0))

compare_runs(table, run_id_a, run_id_b) ==
    LET run_a == load_run(table, run_id_a)
        run_b == load_run(table, run_id_b)
        delta == RSub(TotalOrZero(run_b), TotalOrZero(run_a))
    IN  IF run_a.status = "error" \/ run_b.status = "error"
        THEN [status |-> "error", error |-> "Run id not found.", run_a |-> run_a, run_b |-> run_b,
              delta |-> NaN, delta_pct |-> NaN]
        ELSE [status |-> "ok", error |-> "", run_a |-> run_a, run_b |-> run_b, delta |-> delta,
              delta_pct |-> IF TotalOrZero(run_a).n = 0 THEN NaN
                            ELSE RMul(RDiv(delta, TotalOrZero(run_a)), Int2Rat(100))]

(***************************************************************************)
(* The run history under its operations.                                   *)
(***************************************************************************)
RunInput(run_name, payload, metadata) ==
    [run_name |-> run_name, payload |-> payload, metadata |-> metadata]

\* what is handed to save_run: a record set with and without metadata, a
\* payload holding a tuple, metadata holding a date
RunInputs ==
    {RunInput(" Fleet ",
              PyDict(<<PyItem("raw_records",
                              PyList(<<PyDict(<<PyItem("activity", PyStr("x")),
                                               PyItem("amount", PyNum("10.0")),
                                               PyItem("ch4", PyNone)>>)>>))>>),
              PyNone),
     RunInput("",
              PyDict(<<PyItem("raw_records", PyList(<< >>))>>),
              PyDict(<<PyItem("region", PyStr("us")), PyItem("year", PyNum("2024"))>>)),
     RunInput(" Fleet ",
              PyDict(<<PyItem("window", PyTuple(<<PyNum("1"), PyNum("2")>>))>>),
              PyDict(<< >>)),
     RunInput("",
              PyDict(<<PyItem("raw_records", PyList(<< >>))>>),
              PyDict(<<PyItem("reported", PyDate("2025-01-31"))>>))}

RunTotals == {NaN, Int2Rat(100), Int2Rat(80)}

RunLimits == {1, 200}

RunOps == {"save_run", "list_runs", "load_run", "compare_runs"}

SaveRun ==
    /\ op \in {"init"} \cup RunOps
    /\ sqlite_sequence.analysis_runs < MaxRuns
    /\ \E input \in RunInputs, total_co2e \in RunTotals, now \in Timestamps :
        LET out == save_run(analysis_runs, sqlite_sequence.analysis_runs, input.run_name,
                            "manual", input.payload, input.metadata, total_co2e, now)
        IN  /\ analysis_runs' = out.table
            /\ sqlite_sequence' = [sqlite_sequence EXCEPT !.analysis_runs = out.seq]
            /\ result' = [status |-> "ok", error |-> "", id |-> out.id]
            /\ args' = [run_name |-> input.run_name, payload |-> input.payload,
                        metadata |-> input.metadata, total_co2e |-> total_co2e]
            /\ seen' = seen \cup {[call |-> "save_run", returned |-> out.id,
                                   payload |-> input.payload, metadata |-> input.metadata,
                                   total_co2e |-> total_co2e]}
    /\ op' = "save_run"
    /\ UNCHANGED <<df, factors_df, db_factors, region, year>>

ListRuns ==
    /\ op \in {"init"} \cup RunOps
    /\ \E limit \in RunLimits :
        /\ result' = list_runs(analysis_runs, limit)
        /\ args' = [limit |-> limit]
    /\ op' = "list_runs"
    /\ UNCHANGED <<df, factors_df, db_factors, sqlite_sequence, analysis_runs, region, year, seen>>

LoadRun ==
    /\ op \in {"init"} \cup RunOps
    /\ \E run_id \in 1..(MaxRuns + 1) :
        /\ result' = load_run(analysis_runs, run_id)
        /\ args' = [run_id |-> run_id]
    /\ op' = "load_run"
    /\ UNCHANGED <<df, factors_df, db_factors, sqlite_sequence, analysis_runs, region, year, seen>>

CompareRuns ==
    /\ op \in {"init"} \cup RunOps
    /\ \E run_id_a, run_id_b \in 1..(MaxRuns + 1) :
        /\ result' = compare_runs(analysis_runs, run_id_a, run_id_b)
        /\ args' = [run_id_a |-> run_id_a, run_id_b |-> run_id_b]
    /\ op' = "compare_runs"
    /\ UNCHANGED <<df, factors_df, db_factors, sqlite_sequence, analysis_runs, region, year, seen>>

InitRuns ==
    /\ df = NoneDf
    /\ factors_df = NoneDf
    /\ db_factors = << >>
    /\ region = NoRegion
    /\ year = NaN
    /\ args = NoArgs
    /\ op = "init"
    /\ result = NoResult
    /\ FreshStore

NextRuns == SaveRun \/ ListRuns \/ LoadRun \/ CompareRuns

SpecRuns == InitRuns /\ [][NextRuns]_vars

\* the value with every tuple as a list and every object that JSON does not
\* know as the text of its str()
RECURSIVE Stringified(_)
Stringified(value) ==
    LET items == [i \in 1..Len(value.items) |-> Stringified(value.items[i])]
    IN  CASE value.t \in {"list", "tuple"} -> PyList(items)
          [] value.t = "dict" -> PyDict(items)
          [] value.t = "item" -> PyItem(value.s, items[1])
          [] value.t = "date" -> PyStr(value.s)
          [] OTHER -> value

\* dicts, lists, strings, numbers and None only
JsonNative(value) == Stringified(value) = value

SavedIds == {s.returned : s \in seen}

SavedAs(id) == CHOOSE s \in seen : s.returned = id

\* the run a load_run hands back, as the claim and as the code have it
LoadedAsSaved(run, s) ==
    /\ run.payload = s.payload
    /\ run.metadata = MetadataOrEmpty(s.metadata)
    /\ run.total_co2e = s.total_co2e

LoadedAsStored(run, s) ==
    /\ run.payload = Stringified(s.payload)
    /\ run.metadata = Stringified(MetadataOrEmpty(s.metadata))
    /\ run.total_co2e = s.total_co2e
    /\ JsonNative(s.payload) /\ JsonNative(s.metadata) => LoadedAsSaved(run, s)

\* load_run knows exactly the ids save_run returned
LoadKnowsSaved ==
    op = "load_run" => (result.status = "ok" <=> args.run_id \in SavedIds)

LoadRoundTrip ==
    (op = "load_run" /\ result.status = "ok")
    => result.id = args.run_id /\ LoadedAsStored(result, SavedAs(args.run_id))

CompareLoads ==
    (op = "compare_runs" /\ result.status = "ok")
    => /\ LoadedAsStored(result.run_a, SavedAs(args.run_id_a))
       /\ LoadedAsStored(result.run_b, SavedAs(args.run_id_b))

\* list_runs: the limit newest runs, the newest first
ListNewestFirst ==
    op = "list_runs"
    => /\ \A i, j \in 1..Len(result.rows) : i < j => result.rows[i].id > result.rows[j].id
       /\ {result.rows[i].id : i \in 1..Len(result.rows)}
            = {id \in SavedIds : Cardinality({other \in SavedIds : other > id}) < args.limit}

\* a save_run returns an id above every earlier one and adds its row; no
\* operation touches a stored row
SavedOnce ==
    /\ op' = "save_run"
       => /\ \A id \in SavedIds : result'.id > id
          /\ result'.id > 0
          /\ Len(analysis_runs') = Len(analysis_runs) + 1
    /\ SubSeq(analysis_runs', 1, Len(analysis_runs)) = analysis_runs

\* C23 (amended): every save_run returns a fresh id above every earlier one
\* and no later operation changes a stored run; load_run(id) returns the
\* total_co2e passed to that save_run and the JSON round trip of its payload
\* and metadata ({} when none was given): equal to what was passed when they
\* hold dicts, lists, strings, numbers and None only, a tuple coming back as
\* a list and any other object as its str() text; load_run of an id that was
\* never returned fails; list_runs returns the limit newest runs newest first.
C23_RunsImmutable ==
    [](LoadKnowsSaved /\ LoadRoundTrip /\ CompareLoads /\ ListNewestFirst) /\ [][SavedOnce]_vars

\* C23 as claimed: load_run returns exactly the payload and metadata passed
C23_AsClaimed ==
    (op = "load_run" /\ result.status = "ok") => LoadedAsSaved(result, SavedAs(args.run_id))

\* the first of two saved runs is loaded after the second was saved
C23_Witness ==
    /\ op = "load_run"
    /\ args.run_id = 1
    /\ result.status = "ok"
    /\ Len(analysis_runs) = 2
    /\ SavedAs(1).metadata = PyNone
    /\ result.metadata = PyDict(<< >>)
    /\ result.payload = SavedAs(1).payload
    /\ result.total_co2e = Int2Rat(100)

(***************************************************************************)
(* The Excel parser.  A workbook is the sequence of its sheets; a sheet    *)
(* has a name, the headers of its columns and its rows, a row holding its  *)
(* cells under the standard column names (NA, NaN: an empty cell).         *)
(***************************************************************************)
STANDARD_COLUMNS ==
    {"category", "activity", "unit", "amount", "emission_factor", "source", "ch4", "n2o"}

\* name.strip().lower().replace(" ", "_").replace("-", "_")
_normalize_column(name) ==
    CASE name = "Scope" -> "scope"
      [] name = "Activity Name" -> "activity_name"
      [] name = "Unit" -> "unit"
      [] name = "Amount" -> "amount"
      [] name = "EF" -> "ef"
      [] OTHER -> name

COLUMN_ALIASES ==
    [c \in STANDARD_COLUMNS |->
        CASE c = "category" -> {"scope", "scope_tag", "emission_scope", "category_tag"}
          [] c = "activity" -> {"activity_name", "activity_type", "item", "description", "process"}
          [] c = "unit" -> {"uom", "units", "measurement_unit"}
          [] c = "amount" -> {"value", "quantity", "activity_amount", "consumption"}
          [] c = "emission_factor" -> {"ef", "factor", "co2_factor", "co2e_factor"}
          [] c = "source" -> {"data_source", "reference", "origin"}
          [] c = "ch4" -> {"ch4_factor", "methane", "methane_factor"}
          [] c = "n2o" -> {"n2o_factor", "nitrous_oxide", "nitrous_oxide_factor"}]

\* the columns of a sheet after the renaming of _standardize_columns
_standardize_columns(columns) ==
    {IF \E c \in STANDARD_COLUMNS : _normalize_column(h) = c \/ _normalize_column(h) \in COLUMN_ALIASES[c]
     THEN CHOOSE c \in STANDARD_COLUMNS : _normalize_column(h) = c \/ _normalize_column(h) \in COLUMN_ALIASES[c]
     ELSE _normalize_column(h) : h \in columns}

ExcelRow(category, activity, unit, amount, emission_factor) ==
    [category |-> category, activity |-> activity, unit |-> unit, amount |-> amount,
     emission_factor |-> emission_factor, source |-> NA, ch4 |-> NaN, n2o |-> NaN]

Sheet(name, cols, rows) == [name |-> name, cols |-> cols, rows |-> rows]

Message(sheet, problem, count, columns) ==
    [sheet |-> sheet, problem |-> problem, count |-> count, columns |-> columns]

\* df.dropna(how="all")
AllEmpty(row) ==
    /\ row.category = NA /\ row.activity = NA /\ row.unit = NA /\ row.source = NA
    /\ isna(row.amount) /\ isna(row.emission_factor) /\ isna(row.ch4) /\ isna(row.n2o)

\* the cells of a row of the sheet after the text and numeric coercions
CoerceSheetRow(sheet, row) ==
    [category |-> IF row.category = NA THEN NA ELSE strip(row.category),
     activity |-> IF row.activity = NA THEN NA ELSE strip(row.activity),
     unit |-> IF row.unit = NA THEN NA ELSE strip(row.unit),
     source |-> strip(fillna_text(row.source, sheet.name)),
     amount |-> to_numeric(row.amount),
     emission_factor |-> to_numeric(row.emission_factor),
     ch4 |-> to_numeric(row.ch4),
     n2o |-> to_numeric(row.n2o)]

InvalidNumeric(row) == isna(row.amount) \/ isna(row.emission_factor)

\* one sheet of the loop of parse_excel: the rows it keeps and the message
\* it appends to errors
CleanSheet(sheet) ==
    LET missing == REQUIRED_COLUMNS \ _standardize_columns(sheet.cols)
        filled == FilterIdx(sheet.rows, LAMBDA i : ~AllEmpty(sheet.rows[i]))
        coerced == [i \in 1..Len(filled) |-> CoerceSheetRow(sheet, filled[i])]
        invalid_numeric == FilterIdx(coerced, LAMBDA i : InvalidNumeric(coerced[i]))
        valid == FilterIdx(coerced, LAMBDA i : ~InvalidNumeric(coerced[i]))
        labelled == FilterIdx(valid, LAMBDA i : /\ valid[i].category # NA
                                                 /\ valid[i].activity # NA
                                                 /\ valid[i].unit # NA)
    IN  IF sheet.rows = << >> THEN [rows |-> << >>, errors |-> << >>]
        ELSE IF missing # {}
        THEN [rows |-> << >>, errors |-> <<Message(sheet.name, "missing columns", 0, missing)>>]
        ELSE [rows |-> labelled,
              errors |-> IF invalid_numeric = << >> THEN << >>
                         ELSE <<Message(sheet.name, "non-numeric amount/emission_factor",
                                        Len(invalid_numeric), {})>>]

RECURSIVE CleanSheets(_)
CleanSheets(sheets) ==
    IF sheets = << >> THEN [rows |-> << >>, errors |-> << >>]
    ELSE LET rest == CleanSheets(Tail(sheets))
         IN  [rows |-> CleanSheet(Head(sheets)).rows \o rest.rows,
              errors |-> CleanSheet(Head(sheets)).errors \o rest.errors]

NoFile == <<Sheet("<no file>", {}, << >>)>>

Failure(messages) == [status |-> "error", error |-> messages, df |-> NoneDf]

\* parse_excel: the cleaned rows of all sheets, or the ValueError; the
\* messages collected in errors leave the function inside the ValueError only
parse_excel(file) ==
    LET cleaned == CleanSheets(file)
    IN  IF file = NoFile THEN Failure(<<Message("", "No file uploaded.", 0, {})>>)
        ELSE IF file = << >> THEN Failure(<<Message("", "The workbook has no sheets.", 0, {})>>)
        ELSE IF cleaned.rows = << >>
        THEN IF cleaned.errors # << >> THEN Failure(cleaned.errors)
             ELSE Failure(<<Message("", "No valid data found in workbook.", 0, {})>>)
        ELSE [status |-> "ok", error |-> << >>,
              df |-> Frame(STANDARD_COLUMNS,
                           [i \in 1..Len(cleaned.rows) |->
                               [cleaned.rows[i] EXCEPT
                                   !.category = remove_spaces(lower(cleaned.rows[i].category))]])]

ParseExcel ==
    /\ op = "init"
    /\ result' = parse_excel(args.file)
    /\ op' = "parse_excel"
    /\ UNCHANGED <<df, factors_df, db_factors, sqlite_sequence, analysis_runs, region, year, args, seen>>

\* the rows of the first sheet: two valid ones, a text amount, an empty
\* factor, a row without category, an empty row
SheetRows ==
    {ExcelRow("Scope 1", "Diesel ", "l", Int2Rat(10), Int2Rat(2)),
     ExcelRow("scope2", "coal", "kg", Int2Rat(50), Rat(3, 2)),
     ExcelRow("scope2", "coal", "kg", TextCell, Int2Rat(2)),
     ExcelRow("Scope 1", "Diesel ", "l", Int2Rat(10), NaN),
     ExcelRow(NA, "coal", "kg", Int2Rat(10), Int2Rat(2)),
     ExcelRow(NA, NA, NA, NaN, NaN)}

SheetHeaders ==
    {{"Scope", "Activity Name", "Unit", "Amount", "EF"},
     {"category", "activity", "unit", "amount"}}

SecondSheets ==
    {Sheet("More", {"category", "activity", "unit", "amount", "emission_factor"}, rows) :
        rows \in {<<ExcelRow("scope2", "coal", "kg", Int2Rat(50), Rat(3, 2))>>,
                  <<ExcelRow("scope2", "coal", "kg", TextCell, Int2Rat(2))>>,
                  << >>}}

Workbooks ==
    {NoFile, << >>}
    \cup {<<Sheet("Data", h, rows)>> : h \in SheetHeaders, rows \in SeqsUpTo(SheetRows, MaxRows)}
    \cup {<<Sheet("Data", h, rows), second>> :
            h \in SheetHeaders, rows \in SeqsUpTo(SheetRows, MaxRows), second \in SecondSheets}

InitExcel ==
    /\ df = NoneDf
    /\ factors_df = NoneDf
    /\ db_factors = << >>
    /\ region = NoRegion
    /\ year = NaN
    /\ args \in {[file |-> w] : w \in Workbooks}
    /\ op = "init"
    /\ result = NoResult
    /\ FreshStore

NextExcel == ParseExcel

SpecExcel == InitExcel /\ [][NextExcel]_vars

Parsed == op = "parse_excel"

\* the sheets of the workbook that carry the required columns
ReadSheets ==
    {i \in 1..Len(args.file) :
        args.file # NoFile /\ REQUIRED_COLUMNS \subseteq _standardize_columns(args.file[i].cols)}

\* non-empty rows of a sheet whose amount or factor is not a number
ExcludedCells(i) ==
    {j \in 1..Len(args.file[i].rows) :
        /\ ~AllEmpty(args.file[i].rows[j])
        /\ \/ isna(to_numeric(args.file[i].rows[j].amount))
           \/ isna(to_numeric(args.file[i].rows[j].emission_factor))}

\* non-empty rows of a sheet with numeric amount and factor and all labels
ValidCells(i) ==
    {j \in 1..Len(args.file[i].rows) :
        /\ j \notin ExcludedCells(i)
        /\ ~AllEmpty(args.file[i].rows[j])
        /\ args.file[i].rows[j].category # NA
        /\ args.file[i].rows[j].activity # NA
        /\ args.file[i].rows[j].unit # NA}

\* what the caller of parse_excel is told
Reported == IF result.status = "error" THEN Range(result.error) ELSE {}

\* C24: rows whose amount or emission_factor is not a number are left out,
\* each sheet that loses rows is reported with the number of rows it lost,
\* the valid rows of all sheets are returned, and parse_excel fails only when
\* no sheet has a valid row.
C24_ExcludedWithWarning ==
    Parsed
    => /\ \A i \in ReadSheets :
            ExcludedCells(i) # {}
            => Message(args.file[i].name, "non-numeric amount/emission_factor",
                       Cardinality(ExcludedCells(i)), {}) \in Reported
       /\ result.status = "ok" <=> \E i \in ReadSheets : ValidCells(i) # {}
       /\ result.status = "ok"
          => /\ Len(result.df.rows) = SumSeq([i \in 1..Len(args.file) |->
                    Int2Rat(IF i \in ReadSheets THEN Cardinality(ValidCells(i)) ELSE 0)]).n
             /\ \A r \in Range(result.df.rows) : notna(r.amount) /\ notna(r.emission_factor)

\* the claim without its warning: the rows are left out, never kept as zero,
\* the valid rows of all sheets are returned, and the failure is a ValueError
\* that carries the messages of the sheets
ExcludedNeverZero ==
    Parsed
    => /\ result.status = "ok" <=> \E i \in ReadSheets : ValidCells(i) # {}
       /\ result.status = "ok"
          => /\ Len(result.df.rows) = SumSeq([i \in 1..Len(args.file) |->
                    Int2Rat(IF i \in ReadSheets THEN Cardinality(ValidCells(i)) ELSE 0)]).n
             /\ \A r \in Range(result.df.rows) : notna(r.amount) /\ notna(r.emission_factor)
       /\ result.status = "error"
          => \A i \in ReadSheets :
                ExcludedCells(i) # {}
                => Message(args.file[i].name, "non-numeric amount/emission_factor",
                           Cardinality(ExcludedCells(i)), {}) \in Reported

====
